---- MODULE Spec2Model ----
(***************************************************************************)
(* State machine of the image editor (components/ImageEditor) and of the   *)
(* part of the application shell (App) that mounts it.                     *)
(*                                                                         *)
(* One action per event handler or effect.  React runs a handler against   *)
(* the values of the last render and commits all of its setX calls in one  *)
(* step, so a handler is one atomic action that reads the unprimed         *)
(* variables and writes the primed ones.  The two effects of the editor    *)
(* (the autosave check and the autosave timer) run after the render their  *)
(* dependencies changed in; they are part of the action that changed them. *)
(*                                                                         *)
(* currentIndex is 0-based as in the source; history is a TLA+ sequence    *)
(* (1-based), so the source's history[i] is At(history, i).                *)
(***************************************************************************)
EXTENDS Integers, Sequences, FiniteSets, TLC

VARIABLES
    brightness,            \* useState(INITIAL_STATE.brightness)
    contrast,              \* useState(INITIAL_STATE.contrast)
    rotation,              \* useState(INITIAL_STATE.rotation)
    cropRatio,             \* useState(INITIAL_STATE.cropRatio)
    history,               \* useState([INITIAL_STATE])
    currentIndex,          \* useState(0)
    hasAutosave,           \* useState(false)
    timer,                 \* the number of autosave setTimeouts that are pending
    localStorage,          \* the text stored under AUTOSAVE_KEY, <<>> when there is none
    imgs,                  \* the Images generateFinalImage has created and that
                           \* are still loading, see ImgStatus
    remixSourceImage,      \* App: 0 for null, otherwise the number of an image
    isEditingRemixSource,  \* App: the editor is mounted
    remixedImage,          \* App: 0 for null, otherwise the number of an image
    loading,               \* App: loading.isLoading
    error,                 \* App: "null" or the message shown
    lastOp,                \* observation: the step taken last
    effect,                \* observation: what that handler did, see Observe
    undone,                \* observation: <<s>> when the last handler was an undo
                           \* called in state s, or the redo right after it
    offered,               \* observation: offered.text is the stored text the autosave
                           \* check found to match when the editor mounted, <<>> when
                           \* none did; kept only while offered.on
    canvas,                \* the canvas of generateFinalImage, see NoCanvas; kept only
                           \* while canvas.on
    shell                  \* App: the mode tab, the inputs of the three modes and the
                           \* requests to the image service, see NoShell; kept only
                           \* while shell.on

live == <<brightness, contrast, rotation, cropRatio>>
stack == <<history, currentIndex>>
editor == <<brightness, contrast, rotation, cropRatio, history, currentIndex>>
app == <<remixSourceImage, isEditingRemixSource, remixedImage, loading, error>>
vars == <<brightness, contrast, rotation, cropRatio, history, currentIndex,
          hasAutosave, timer, localStorage, imgs, remixSourceImage,
          isEditingRemixSource, remixedImage, loading, error,
          lastOp, effect, undone, offered, canvas, shell>>

----------------------------------------------------------------------------
(* Bounds of the model *)

\* longest history a commit may build when sessions follow one another (Spec)
MaxHistory == 2
\* longest side of an image, in pixels (SpecCrop)
MaxSide == 7
\* longest history a commit may build before Apply (SpecCrop)
MaxCropHistory == 3
\* Images that load at one time (SpecCrop)
MaxCropImgs == 1
\* longest history a commit may build within one session (SpecEditor)
MaxEditorHistory == 3
\* longest history a commit may build with the transform tools alone (SpecTransform)
MaxTransformHistory == 5
\* longest history a commit may build beside remix requests (SpecRemix)
MaxRemixHistory == 2
\* longest history a commit may build beside Apply (SpecApply)
MaxApplyHistory == 2
\* how many Images may be loading at a time (SpecApply)
MaxImgs == 2
\* how many characters the short images hold
ShortImageLen == 3

----------------------------------------------------------------------------
(* Values *)

INITIAL_STATE ==
    [brightness |-> 100, contrast |-> 100, rotation |-> 0, cropRatio |-> "original"]

\* the values of type CropRatio
CropRatio == {"original", "1:1", "16:9", "4:3", "3:4", "9:16"}

\* the ratios the crop buttons are rendered for, in their order
CropButtons == <<"original", "1:1", "16:9", "4:3", "9:16">>

\* the range inputs: min="0" max="200", integer steps
SliderMin == 0
SliderMax == 200

\* the values the range inputs deliver in the model: the default and one other
SliderInputs == {100, 150} \cap (SliderMin..SliderMax)

\* the crop buttons pressed where sliders are used too
CropInputs == {CropButtons[1], CropButtons[2]}

Min(a, b) == IF a < b THEN a ELSE b

EditorState(b, c, r, cr) ==
    [brightness |-> b, contrast |-> c, rotation |-> r, cropRatio |-> cr]

At(h, i) == h[i + 1]

\* h[i] is defined (an array read outside 0..length-1 gives undefined)
HasEntry(h, i) == i \in 0..(Len(h) - 1)

----------------------------------------------------------------------------
(* Source images and their signature *)

\* the number of characters getImageSignature takes from each end
SigSlice == 30

\* Image n as a sequence of characters.  Images 1 and 2 are short and differ
\* in every character.  Images 3 and 4 are longer than twice SigSlice: they
\* have the same length, the same first and the same last SigSlice characters
\* and differ in the one character between.  Image 5 is short and differs from
\* images 1 and 2 in every character.
ImageData(n) ==
    IF n <= 2
    THEN [i \in 1..ShortImageLen |-> IF n = 1 THEN "A" ELSE "B"]
    ELSE IF n <= 4
    THEN [i \in 1..(2 * SigSlice + 1) |->
             IF i = SigSlice + 1 THEN (IF n = 3 THEN "x" ELSE "y") ELSE "C"]
    ELSE [i \in 1..ShortImageLen |-> "P"]

\* the images that are uploaded
Images == {1, 2}

\* The image canvas.toDataURL('image/png') returns.  The pixels are not
\* modelled: every output is the one image 5, which is no upload.
toDataURL == 5

DigitChars == <<"0", "1", "2", "3", "4", "5", "6", "7", "8", "9">>

\* the decimal text of a natural number, as template-literal interpolation gives it
RECURSIVE NumberText(_)
NumberText(n) ==
    IF n < 10 THEN <<DigitChars[n + 1]>>
    ELSE NumberText(n \div 10) \o <<DigitChars[(n % 10) + 1]>>

\* String.prototype.slice(0, k) and slice(-k)
SliceHead(s, k) == SubSeq(s, 1, Min(k, Len(s)))
SliceTail(s, k) == SubSeq(s, Len(s) - Min(k, Len(s)) + 1, Len(s))

getImageSignature(imgData) ==
    IF Len(imgData) = 0 THEN <<>>
    ELSE NumberText(Len(imgData)) \o <<"-">> \o SliceHead(imgData, SigSlice)
            \o <<"-">> \o SliceTail(imgData, SigSlice)

image == ImageData(remixSourceImage)

----------------------------------------------------------------------------
(* localStorage and JSON *)

\* The stored text is modelled as the sequence of <<key, value>> pairs of the
\* serialized object, in the order the object literal lists them; <<>> is
\* "no item" (getItem returns null).  The timestamp field is never read and
\* is left out.
SavedKeys ==
    <<"imageSignature", "brightness", "contrast", "rotation", "cropRatio",
      "history", "currentIndex">>

JSON_stringify(obj) == [i \in 1..Len(SavedKeys) |-> <<SavedKeys[i], obj[SavedKeys[i]]>>]

\* JSON.parse throws a SyntaxError on a text that is not a serialized object;
\* such a text is modelled as a sequence with an element that is not a pair.
Parsable(text) == \A i \in 1..Len(text) : Len(text[i]) = 2

JSON_parse(text) ==
    [k \in {text[i][1] : i \in 1..Len(text)} |->
        text[CHOOSE i \in 1..Len(text) : text[i][1] = k][2]]

\* the object the timer callback builds from the values of its render
stateToSave ==
    [imageSignature |-> getImageSignature(image),
     brightness |-> brightness,
     contrast |-> contrast,
     rotation |-> rotation,
     cropRatio |-> cropRatio,
     history |-> history,
     currentIndex |-> currentIndex]

\* SavedMatches with a fault: any stored item matches
SavedMatches_AnyItem(img) == Len(localStorage) > 0

\* localStorage holds an item whose imageSignature is that of img
\* (the item is read inside try/catch: a text that does not parse matches
\* nothing)
SavedMatches(img) ==
    /\ Len(localStorage) > 0
    /\ Parsable(localStorage)
    /\ LET parsed == JSON_parse(localStorage)
       IN  /\ "imageSignature" \in DOMAIN parsed
           /\ parsed.imageSignature = getImageSignature(img)

----------------------------------------------------------------------------
(* JavaScript numbers *)

\* A JavaScript number is an IEEE 754 double: 53 significant bits, every
\* operation rounded to nearest, ties to even.  Significands do not fit the
\* model checker's integers, so a natural number is a sequence of limbs in
\* base 2^15, least significant first, without leading zero limbs, and a
\* number is [neg, m, e] with the value (-1)^neg * m * 2^e.  Exponents stay
\* far from the format's limits: overflow and subnormals are not modelled.
Base == 32768

Precision == 53

RECURSIVE Pow2(_)
Pow2(k) == IF k = 0 THEN 1 ELSE 2 * Pow2(k - 1)

RECURSIVE Norm(_)
Norm(a) ==
    IF a = <<>> THEN <<>>
    ELSE IF a[Len(a)] = 0 THEN Norm(SubSeq(a, 1, Len(a) - 1))
    ELSE a

RECURSIVE FromInt(_)
FromInt(n) == IF n = 0 THEN <<>> ELSE <<n % Base>> \o FromInt(n \div Base)

Limb(a, i) == IF i <= Len(a) THEN a[i] ELSE 0

\* -1, 0 or 1 as a < b, a = b, a > b; i runs from the top limb down
RECURSIVE CmpFrom(_, _, _)
CmpFrom(a, b, i) ==
    IF i = 0 THEN 0
    ELSE IF a[i] < b[i] THEN -1
    ELSE IF a[i] > b[i] THEN 1
    ELSE CmpFrom(a, b, i - 1)

Cmp(a, b) ==
    IF Len(a) < Len(b) THEN -1
    ELSE IF Len(a) > Len(b) THEN 1
    ELSE CmpFrom(a, b, Len(a))

RECURSIVE AddFrom(_, _, _, _)
AddFrom(a, b, i, carry) ==
    IF i > Len(a) /\ i > Len(b)
    THEN (IF carry = 0 THEN <<>> ELSE <<carry>>)
    ELSE LET t == Limb(a, i) + Limb(b, i) + carry
         IN  <<t % Base>> \o AddFrom(a, b, i + 1, t \div Base)

Add(a, b) == AddFrom(a, b, 1, 0)

\* a - b for a >= b
RECURSIVE SubFrom(_, _, _, _)
SubFrom(a, b, i, borrow) ==
    IF i > Len(a) THEN <<>>
    ELSE LET t == a[i] - Limb(b, i) - borrow
         IN  IF t < 0
             THEN <<t + Base>> \o SubFrom(a, b, i + 1, 1)
             ELSE <<t>> \o SubFrom(a, b, i + 1, 0)

Sub(a, b) == Norm(SubFrom(a, b, 1, 0))

\* a * k for 0 <= k <= Base
RECURSIVE MulSmallFrom(_, _, _, _)
MulSmallFrom(a, k, i, carry) ==
    IF i > Len(a)
    THEN (IF carry = 0 THEN <<>> ELSE <<carry>>)
    ELSE LET t == a[i] * k + carry
         IN  <<t % Base>> \o MulSmallFrom(a, k, i + 1, t \div Base)

MulSmall(a, k) == Norm(MulSmallFrom(a, k, 1, 0))

RECURSIVE Mul(_, _)
Mul(a, b) ==
    IF b = <<>> \/ a = <<>> THEN <<>>
    ELSE LET rest == Mul(a, Tail(b))
         IN  Add(MulSmall(a, b[1]), IF rest = <<>> THEN <<>> ELSE <<0>> \o rest)

RECURSIVE SmallBitLen(_)
SmallBitLen(n) == IF n = 0 THEN 0 ELSE 1 + SmallBitLen(n \div 2)

BitLen(a) == IF a = <<>> THEN 0 ELSE 15 * (Len(a) - 1) + SmallBitLen(a[Len(a)])

\* a * 2^k
Shl(a, k) ==
    IF a = <<>> THEN <<>>
    ELSE [i \in 1..(k \div 15) |-> 0] \o MulSmall(a, Pow2(k % 15))

\* floor(a / 2^k)
Shr(a, k) ==
    LET q == k \div 15
        r == k % 15
        high == IF q >= Len(a) THEN <<>> ELSE SubSeq(a, q + 1, Len(a))
    IN  Norm([i \in 1..Len(high) |->
                (high[i] \div Pow2(r)) + (Limb(high, i + 1) % Pow2(r)) * Pow2(15 - r)])

\* bit k of a, bit 0 being the lowest
Bit(a, k) == (Limb(a, (k \div 15) + 1) \div Pow2(k % 15)) % 2

\* a mod 2^k is not zero
LowBits(a, k) == Cmp(Shl(Shr(a, k), k), a) /= 0

\* floor(a / b) and the remainder, by long division in base 2^15.  Both are
\* first scaled so that the top limb of the divisor is at least Base / 2; the
\* quotient digit estimated from the top limbs is then at most 2 too large.
RECURSIVE DivModFrom(_, _, _, _, _)
DivModFrom(a, b, i, q, r) ==
    IF i = 0 THEN [q |-> Norm(q), r |-> r]
    ELSE LET r2 == Norm(<<a[i]>> \o r)
             n == Len(b)
             est == Min((Limb(r2, n + 1) * Base + Limb(r2, n)) \div b[n], Base - 1)
             d == IF Cmp(MulSmall(b, est), r2) <= 0 THEN est
                  ELSE IF Cmp(MulSmall(b, est - 1), r2) <= 0 THEN est - 1
                  ELSE est - 2
         IN  DivModFrom(a, b, i - 1, <<d>> \o q, Sub(r2, MulSmall(b, d)))

DivMod(a, b) ==
    LET s == 15 * Len(b) - BitLen(b)
        d == DivModFrom(Shl(a, s), Shl(b, s), Len(Shl(a, s)), <<>>, <<>>)
    IN  [q |-> d.q, r |-> Shr(d.r, s)]

\* the number of the integer n
Num(n) == [neg |-> n < 0, m |-> FromInt(IF n < 0 THEN 0 - n ELSE n), e |-> 0]

IsZero(a) == a.m = <<>>

\* Rounding of the exact value (m + f) * 2^e, where 0 < f < 1 if sticky and
\* f = 0 otherwise, to the nearest double, ties to even.  The result's
\* significand has exactly 53 bits (zero apart), so equal values are equal
\* records.
RoundTo(neg, m, e, sticky) ==
    LET len == BitLen(m) IN
    IF m = <<>> THEN [neg |-> FALSE, m |-> <<>>, e |-> 0]
    ELSE IF len <= Precision
    THEN [neg |-> neg, m |-> Shl(m, Precision - len), e |-> e - (Precision - len)]
    ELSE LET k == len - Precision
             q == Shr(m, k)
             half == Bit(m, k - 1) = 1
             rest == LowBits(m, k - 1) \/ sticky
             up == half /\ (rest \/ Bit(q, 0) = 1)
             q1 == IF up THEN Add(q, <<1>>) ELSE q
         IN  IF BitLen(q1) > Precision
             THEN [neg |-> neg, m |-> Shr(q1, 1), e |-> e + k + 1]
             ELSE [neg |-> neg, m |-> q1, e |-> e + k]

\* the magnitudes of a and b over their common exponent
Aligned(a, b) ==
    LET e == IF a.e < b.e THEN a.e ELSE b.e
    IN  [a |-> Shl(a.m, a.e - e), b |-> Shl(b.m, b.e - e), e |-> e]

\* -1, 0 or 1 as a < b, a = b, a > b, exactly
Compare(a, b) ==
    LET al == Aligned(a, b)
        mag == Cmp(al.a, al.b)
    IN  IF a.neg /= b.neg
        THEN (IF IsZero(a) /\ IsZero(b) THEN 0 ELSE IF a.neg THEN -1 ELSE 1)
        ELSE IF a.neg THEN 0 - mag ELSE mag

Negated(a) == [a EXCEPT !.neg = ~a.neg /\ ~IsZero(a)]

\* a + b and a - b, exactly
ExactSum(a, b) ==
    LET al == Aligned(a, b)
        mag == Cmp(al.a, al.b)
    IN  IF a.neg = b.neg
        THEN [neg |-> a.neg, m |-> Add(al.a, al.b), e |-> al.e]
        ELSE IF mag = 0 THEN [neg |-> FALSE, m |-> <<>>, e |-> 0]
        ELSE IF mag > 0 THEN [neg |-> a.neg, m |-> Sub(al.a, al.b), e |-> al.e]
        ELSE [neg |-> b.neg, m |-> Sub(al.b, al.a), e |-> al.e]

ExactDifference(a, b) == ExactSum(a, Negated(b))

ExactProduct(a, b) ==
    [neg |-> a.neg /= b.neg /\ ~IsZero(a) /\ ~IsZero(b), m |-> Mul(a.m, b.m), e |-> a.e + b.e]

Rounded(a) == RoundTo(a.neg, a.m, a.e, FALSE)

\* the operators of the language on numbers
Minus(a, b) == Rounded(ExactDifference(a, b))

Times(a, b) == Rounded(ExactProduct(a, b))

\* a / b for b /= 0: the quotient is taken to at least 55 bits and the
\* remainder tells whether anything was cut off
Over(a, b) ==
    LET k == Precision + 2 + BitLen(b.m)
        d == DivMod(Shl(a.m, k), b.m)
    IN  RoundTo(a.neg /= b.neg, d.q, a.e - b.e - k, d.r /= <<>>)

----------------------------------------------------------------------------
(* Crop geometry *)

\* ratio.split(':').map(Number) on the values of CropRatio other than
\* "original"
RatioParts(ratio) ==
    CASE ratio = "1:1" -> <<1, 1>>
      [] ratio = "16:9" -> <<16, 9>>
      [] ratio = "4:3" -> <<4, 3>>
      [] ratio = "3:4" -> <<3, 4>>
      [] ratio = "9:16" -> <<9, 16>>

\* getCropDimensions with a fault: the comparison is the wrong way round
getCropDimensions_Narrower(imgWidth, imgHeight, ratio) ==
    IF ratio = "original"
    THEN [width |-> Num(imgWidth), height |-> Num(imgHeight), x |-> Num(0), y |-> Num(0)]
    ELSE LET rw == RatioParts(ratio)[1]
             rh == RatioParts(ratio)[2]
             targetRatio == Over(Num(rw), Num(rh))
             currentRatio == Over(Num(imgWidth), Num(imgHeight))
             wider == Compare(currentRatio, targetRatio) < 0
             width == IF wider THEN Times(Num(imgHeight), targetRatio) ELSE Num(imgWidth)
             height == IF wider THEN Num(imgHeight) ELSE Over(Num(imgWidth), targetRatio)
             x == Over(Minus(Num(imgWidth), width), Num(2))
             y == Over(Minus(Num(imgHeight), height), Num(2))
         IN  [width |-> width, height |-> height, x |-> x, y |-> y]

\* getCropDimensions with a fault: the crop is anchored at the top left
getCropDimensions_TopLeft(imgWidth, imgHeight, ratio) ==
    IF ratio = "original"
    THEN [width |-> Num(imgWidth), height |-> Num(imgHeight), x |-> Num(0), y |-> Num(0)]
    ELSE LET rw == RatioParts(ratio)[1]
             rh == RatioParts(ratio)[2]
             targetRatio == Over(Num(rw), Num(rh))
             currentRatio == Over(Num(imgWidth), Num(imgHeight))
             wider == Compare(currentRatio, targetRatio) > 0
             width == IF wider THEN Times(Num(imgHeight), targetRatio) ELSE Num(imgWidth)
             height == IF wider THEN Num(imgHeight) ELSE Over(Num(imgWidth), targetRatio)
         IN  [width |-> width, height |-> height, x |-> Num(0), y |-> Num(0)]

getCropDimensions(imgWidth, imgHeight, ratio) ==
    IF ratio = "original"
    THEN [width |-> Num(imgWidth), height |-> Num(imgHeight), x |-> Num(0), y |-> Num(0)]
    ELSE LET rw == RatioParts(ratio)[1]
             rh == RatioParts(ratio)[2]
             targetRatio == Over(Num(rw), Num(rh))
             currentRatio == Over(Num(imgWidth), Num(imgHeight))
             wider == Compare(currentRatio, targetRatio) > 0
             width == IF wider THEN Times(Num(imgHeight), targetRatio) ELSE Num(imgWidth)
             height == IF wider THEN Num(imgHeight) ELSE Over(Num(imgWidth), targetRatio)
             x == Over(Minus(Num(imgWidth), width), Num(2))
             y == Over(Minus(Num(imgHeight), height), Num(2))
         IN  [width |-> width, height |-> height, x |-> x, y |-> y]

----------------------------------------------------------------------------
(* The canvas of generateFinalImage *)

\* generateFinalImage with a fault in its test: half a turn counts as sideways
isRotatedSideways_HalfTurn(rot) == rot % 360 /= 0

isRotatedSideways(rot) == rot % 180 /= 0

\* rotatedWidth with a fault: the buffer is never turned
rotatedWidth_NoSwap(imgWidth, imgHeight, rot) == imgWidth

rotatedWidth(imgWidth, imgHeight, rot) ==
    IF isRotatedSideways(rot) THEN imgHeight ELSE imgWidth

rotatedHeight(imgWidth, imgHeight, rot) ==
    IF isRotatedSideways(rot) THEN imgWidth ELSE imgHeight

\* The callback of img.onload works with the brightness, contrast, rotation
\* and cropRatio of the render in which Apply was pressed, which canvas holds
\* under these names, and with the natural size of the decoded image.
\* canvas.stage is "loading" from the press to the callback and "drawn" in
\* the state the callback leaves; canvas.filter is then the brightness and
\* contrast of rotCtx.filter, canvas.angle the degrees given to rotCtx.rotate
\* and canvas.crop the region copied from the rotated buffer.
NoCanvas(on) ==
    [on |-> on, stage |-> "none",
     brightness |-> 100, contrast |-> 100, rotation |-> 0, cropRatio |-> "original",
     imgWidth |-> 0, imgHeight |-> 0,
     filter |-> <<100, 100>>, angle |-> 0,
     crop |-> [width |-> Num(0), height |-> Num(0), x |-> Num(0), y |-> Num(0)]]

\* img.onload with a fault: the callback reads the parameters of the render
\* that is current when the image has loaded
Closure_Current ==
    EditorState(brightness, contrast, rotation, cropRatio)

\* the brightness, contrast, rotation and cropRatio in the scope of the
\* callback: those of the render in which generateFinalImage ran
Closure ==
    EditorState(canvas.brightness, canvas.contrast, canvas.rotation, canvas.cropRatio)

\* the steps that set the canvas themselves
DrawOps == {"generateFinalImage", "imgOnload"}

Drawn(imgWidth, imgHeight) ==
    [canvas EXCEPT
       !.stage = "drawn",
       !.imgWidth = imgWidth,
       !.imgHeight = imgHeight,
       !.filter = <<Closure.brightness, Closure.contrast>>,
       !.angle = Closure.rotation,
       !.crop = getCropDimensions(rotatedWidth(imgWidth, imgHeight, Closure.rotation),
                                  rotatedHeight(imgWidth, imgHeight, Closure.rotation),
                                  Closure.cropRatio)]

\* the natural sizes a decoded image may have
ImageSizes == ((1..MaxSide) \X (1..MaxSide)) \cup {<<1000, 500>>}

----------------------------------------------------------------------------
(* Images that are loading *)

\* generateFinalImage creates an Image and returns; the Image then loads on its
\* own and is referenced by nothing in the component.  imgs[s] is the number
\* of loading Images whose editor is in condition s:
\*   "open"       the editor that created it is mounted
\*   "cancelled"  that editor was unmounted by onCancel
\*   "closed"     that editor was unmounted by the onSave of another editor's
\*                Image
\*   "saved"      that editor was unmounted by the onSave of one of its own
\*                Images
ImgStatus == {"open", "cancelled", "closed", "saved"}

NoImgs == [s \in ImgStatus |-> 0]

----------------------------------------------------------------------------
(* The application shell *)

AppMode == {"analyze", "remix", "generate"}

\* the four requests to the image service: analyzeImage, enhancePrompt,
\* generateNewImage and remixImage
Requests == {"analyze", "enhance", "generate", "remix"}

\* shell.mode is the tab; analysisImage, generationPrompt and remixPrompt tell
\* whether the input is set (non-empty); results holds the requests whose
\* result is set (analysisResult, enhancementResult, generatedImage);
\* pending[r] is the number of calls of request r that are awaited;
\* selecting is the number of openSelectKey dialogs that are awaited.
NoShell(on) ==
    [on |-> on, mode |-> "analyze",
     analysisImage |-> FALSE, generationPrompt |-> FALSE, remixPrompt |-> FALSE,
     results |-> {}, pending |-> [r \in Requests |-> 0],
     is403Error |-> FALSE, selecting |-> 0]

\* the steps that set shell themselves
ShellOps ==
    {"setMode", "setAnalysisImage", "setGenerationPrompt", "setRemixPrompt",
     "handleAnalysis", "handleEnhancePrompt", "handleGeneration", "handleRemix",
     "requestResolved", "requestRejected", "remixResolved", "remixRejected",
     "handleSelectSystemKey", "selectKeyResolved", "selectKeyRejected",
     "handleTransferToRemix"}

\* The Button component and the native button run onClick only while their
\* disabled attribute is false.
Clickable(disabled) == ~disabled

\* the fallback messages of the four handlers
Fallback ==
    [analyze |-> "Failed to analyze image",
     enhance |-> "Failed to enhance prompt",
     generate |-> "Failed to generate image",
     remix |-> "Failed to remix image"]

\* The errors the image service throws.  message is err.message; error is
\* <<e>> when the message holds a JSON text with an error member e, of which
\* message and code are kept, and <<>> when it holds none; mentions403 tells
\* whether the message includes '403' or 'permission' and notFound whether
\* the parsed message includes 'Requested entity was not found'.
Errors ==
    { [message |-> "", error |-> <<>>, mentions403 |-> FALSE, notFound |-> FALSE],
      [message |-> "No image generated.", error |-> <<>>,
       mentions403 |-> FALSE, notFound |-> FALSE],
      [message |-> "got status: 403", error |-> <<[message |-> "", code |-> 403]>>,
       mentions403 |-> TRUE, notFound |-> FALSE],
      [message |-> "got status: 404",
       error |-> <<[message |-> "Requested entity was not found.", code |-> 404]>>,
       mentions403 |-> FALSE, notFound |-> TRUE] }

\* the error an unfilled service call is taken to throw where the shell is
\* not kept
EmptyError == [message |-> "", error |-> <<>>, mentions403 |-> FALSE, notFound |-> FALSE]

\* the string parseError returns
parseError(err) ==
    IF err.error /= <<>>
    THEN (IF err.error[1].message /= "" THEN err.error[1].message ELSE err.message)
    ELSE err.message

\* whether parseError calls setIs403Error(true)
Sets403(err) ==
    \/ err.error /= <<>> /\ err.error[1].code = 403
    \/ err.error = <<>> /\ err.mentions403

\* handleError with a fault: the parsed message is set as it is
handleError_NoFallback(err, fallbackMessage) == parseError(err)

\* the message handleError passes to setError
handleError(err, fallbackMessage) ==
    LET parsedMsg == parseError(err)
    IN  IF parsedMsg /= "" THEN parsedMsg ELSE fallbackMessage

\* the number of requests that are awaited
InFlight(s) ==
    s.pending["analyze"] + s.pending["enhance"] + s.pending["generate"] + s.pending["remix"]

----------------------------------------------------------------------------
(* Observation of the last handler *)

CommitOps == {"commitSliderChange", "handleRotate", "handleCropChange"}

\* the steps in which App stops rendering the editor
UnmountOps == {"cancel", "imgOnload"}

\* the state a handler ran in; fresh until the next handler has run
Before ==
    [live |-> live, history |-> history, currentIndex |-> currentIndex, fresh |-> TRUE]

\* Records which step was taken and what it did; evaluated after the step's
\* own assignments.  effect:
\*   "same"      a commit of a candidate equal to history[currentIndex]
\*   "append"    a commit made at the end of the history
\*   "truncate"  a commit made before the end of the history
\*   "moved"     an undo or a redo that changed currentIndex
\*   "rejected"  an undo or a redo that did not
\*   "restored"  a restore that copied the stored state
\*   "ignored"   a restore that did not
\*   "cleared"   a reset of a history of more than one entry
\*   "replaced"  an autosave over an item that was not of this image
\*   "failed"    an autosave whose write threw
\*   "done"      any other step
\* undone is set by an undo, kept by the redo that is the next handler to run
\* and by the autosave timer, and emptied by every other handler.
\* offered.text is set when the editor mounts and emptied when it unmounts, in
\* the specifications that start with offered.on.
\* The events of a loading Image are recorded by ObserveAs with the condition
\* of the editor that created it as the effect.
ObserveAs(op, what) ==
    /\ lastOp' = op
    /\ effect' = what
    /\ undone' =
         IF op = "handleUndo" THEN <<Before>>
         ELSE IF op = "handleRedo" /\ undone /= <<>> /\ undone[1].fresh
         THEN <<[undone[1] EXCEPT !.fresh = FALSE]>>
         ELSE IF op \in {"autosaveTimer", "autosaveTimerThrows"} THEN undone
         ELSE <<>>
    /\ offered' =
         IF ~offered.on THEN offered
         ELSE IF op = "openEditor"
         THEN [on |-> TRUE, text |-> IF SavedMatches(image) THEN localStorage ELSE <<>>]
         ELSE IF op \in UnmountOps THEN [on |-> TRUE, text |-> <<>>]
         ELSE offered
    /\ IF op \in DrawOps THEN TRUE
       ELSE IF canvas.stage = "drawn" THEN canvas' = NoCanvas(canvas.on)
       ELSE UNCHANGED canvas
    /\ IF op \in ShellOps THEN TRUE ELSE UNCHANGED shell

Observe(op) ==
    ObserveAs(op,
         IF op \in CommitOps
         THEN (IF stack' = stack THEN "same"
               ELSE IF currentIndex < Len(history) - 1 THEN "truncate"
               ELSE "append")
         ELSE IF op \in {"handleUndo", "handleRedo"}
         THEN (IF currentIndex' = currentIndex THEN "rejected" ELSE "moved")
         ELSE IF op = "handleRestoreAutosave"
         THEN (IF SavedMatches(image) THEN "restored" ELSE "ignored")
         ELSE IF op = "handleReset" /\ Len(history) > 1
         THEN "cleared"
         ELSE "done")

----------------------------------------------------------------------------
(* The editor's handlers *)

\* applying an entry with a fault: only the sliders are set from it
applyState_SlidersOnly(state) ==
    /\ brightness' = state.brightness
    /\ contrast' = state.contrast
    /\ UNCHANGED <<rotation, cropRatio>>

applyState(state) ==
    /\ brightness' = state.brightness
    /\ contrast' = state.contrast
    /\ rotation' = state.rotation
    /\ cropRatio' = state.cropRatio

\* The autosave effect's cleanup, clearTimeout(timer): the timeouts pending
\* after it.  Clearing a timeout that has fired does nothing.
clearTimeout == IF timer > 0 THEN timer - 1 ELSE 0

\* Restart with a fault: the effect returns no cleanup
Restart_NoCleanup(historySet) ==
    timer' = IF historySet \/ live' /= live \/ currentIndex' /= currentIndex
             THEN timer + 1 ELSE timer

\* The autosave effect: a render in which one of its dependencies changed
\* clears the pending timer and sets a new one.  A setState with the value the
\* state already has causes no render; setHistory with a new array always does.
Restart(historySet) ==
    timer' = IF historySet \/ live' /= live \/ currentIndex' /= currentIndex
             THEN clearTimeout + 1 ELSE timer

\* addToHistory with faults, each used to see that a property depends on it:
\* currentIndex set to the length instead of the last position
addToHistory_IndexPastEnd(newState) ==
    LET currentState == At(history, currentIndex) IN
    IF currentState = newState
    THEN UNCHANGED stack
    ELSE LET newHistory == Append(SubSeq(history, 1, currentIndex + 1), newState)
         IN  /\ history' = newHistory
             /\ currentIndex' = Len(newHistory)

\* the entries after currentIndex are kept
addToHistory_KeepFuture(newState) ==
    LET currentState == At(history, currentIndex) IN
    IF currentState = newState
    THEN UNCHANGED stack
    ELSE LET newHistory == Append(history, newState)
         IN  /\ history' = newHistory
             /\ currentIndex' = Len(newHistory) - 1

\* the new state is compared with the first entry, not with the current one
addToHistory_ComparesFirst(newState) ==
    IF At(history, 0) = newState
    THEN UNCHANGED stack
    ELSE LET newHistory == Append(SubSeq(history, 1, currentIndex + 1), newState)
         IN  /\ history' = newHistory
             /\ currentIndex' = Len(newHistory) - 1

\* no comparison with the current entry
addToHistory_NoEqualityCheck(newState) ==
    LET newHistory == Append(SubSeq(history, 1, currentIndex + 1), newState)
    IN  /\ history' = newHistory
        /\ currentIndex' = Len(newHistory) - 1

\* the oldest entry is dropped once the history holds two
addToHistory_DropOldest(newState) ==
    LET currentState == At(history, currentIndex) IN
    IF currentState = newState
    THEN UNCHANGED stack
    ELSE LET kept == SubSeq(history, 1, currentIndex + 1)
             newHistory == Append(IF Len(kept) >= 2 THEN Tail(kept) ELSE kept, newState)
         IN  /\ history' = newHistory
             /\ currentIndex' = Len(newHistory) - 1

\* history[currentIndex] is undefined when the index is outside the history:
\* reading its fields throws a TypeError and the handler stops there, after
\* the state updates it had already queued.
addToHistory(newState) ==
    LET currentState == At(history, currentIndex) IN
    IF ~HasEntry(history, currentIndex)
    THEN UNCHANGED stack
    ELSE
    IF /\ currentState.brightness = newState.brightness
       /\ currentState.contrast = newState.contrast
       /\ currentState.rotation = newState.rotation
       /\ currentState.cropRatio = newState.cropRatio
    THEN UNCHANGED stack
    ELSE LET newHistory == Append(SubSeq(history, 1, currentIndex + 1), newState)
         IN  /\ history' = newHistory
             /\ currentIndex' = Len(newHistory) - 1

\* SetBrightness with a fault: every intermediate value is committed
SetBrightness_Commits(v) ==
    /\ isEditingRemixSource
    /\ brightness' = v
    /\ addToHistory(EditorState(v, contrast, rotation, cropRatio))
    /\ UNCHANGED <<contrast, rotation, cropRatio>>
    /\ Restart(FALSE)
    /\ Observe("setBrightness")
    /\ UNCHANGED <<hasAutosave, localStorage, imgs, app>>

\* the brightness range input's onChange
SetBrightness(v) ==
    /\ isEditingRemixSource
    /\ brightness' = v
    /\ UNCHANGED <<contrast, rotation, cropRatio, stack>>
    /\ Restart(FALSE)
    /\ Observe("setBrightness")
    /\ UNCHANGED <<hasAutosave, localStorage, imgs, app>>

\* the contrast range input's onChange
SetContrast(v) ==
    /\ isEditingRemixSource
    /\ contrast' = v
    /\ UNCHANGED <<brightness, rotation, cropRatio, stack>>
    /\ Restart(FALSE)
    /\ Observe("setContrast")
    /\ UNCHANGED <<hasAutosave, localStorage, imgs, app>>

\* the range inputs' onMouseUp / onTouchEnd
commitSliderChange ==
    /\ isEditingRemixSource
    /\ addToHistory(EditorState(brightness, contrast, rotation, cropRatio))
    /\ UNCHANGED live
    /\ Restart(FALSE)
    /\ Observe("commitSliderChange")
    /\ UNCHANGED <<hasAutosave, localStorage, imgs, app>>

\* handleRotate with a fault: it turns by half a step
handleRotate_EighthTurn ==
    LET newRotation == (rotation + 45) % 360 IN
    /\ isEditingRemixSource
    /\ rotation' = newRotation
    /\ addToHistory(EditorState(brightness, contrast, newRotation, cropRatio))
    /\ UNCHANGED <<brightness, contrast, cropRatio>>
    /\ Restart(FALSE)
    /\ Observe("handleRotate")
    /\ UNCHANGED <<hasAutosave, localStorage, imgs, app>>

\* handleRotate with a fault: the angle is not reduced modulo 360
handleRotate_NoWrap ==
    LET newRotation == rotation + 90 IN
    /\ isEditingRemixSource
    /\ rotation' = newRotation
    /\ addToHistory(EditorState(brightness, contrast, newRotation, cropRatio))
    /\ UNCHANGED <<brightness, contrast, cropRatio>>
    /\ Restart(FALSE)
    /\ Observe("handleRotate")
    /\ UNCHANGED <<hasAutosave, localStorage, imgs, app>>

handleRotate ==
    LET newRotation == (rotation + 90) % 360 IN
    /\ isEditingRemixSource
    /\ rotation' = newRotation
    /\ addToHistory(EditorState(brightness, contrast, newRotation, cropRatio))
    /\ UNCHANGED <<brightness, contrast, cropRatio>>
    /\ Restart(FALSE)
    /\ Observe("handleRotate")
    /\ UNCHANGED <<hasAutosave, localStorage, imgs, app>>

\* handleCropChange with a fault: the new ratio is not committed
handleCropChange_NoCommit(ratio) ==
    /\ isEditingRemixSource
    /\ cropRatio' = ratio
    /\ UNCHANGED <<brightness, contrast, rotation, stack>>
    /\ Restart(FALSE)
    /\ Observe("handleCropChange")
    /\ UNCHANGED <<hasAutosave, localStorage, imgs, app>>

handleCropChange(ratio) ==
    /\ isEditingRemixSource
    /\ cropRatio' = ratio
    /\ addToHistory(EditorState(brightness, contrast, rotation, ratio))
    /\ UNCHANGED <<brightness, contrast, rotation>>
    /\ Restart(FALSE)
    /\ Observe("handleCropChange")
    /\ UNCHANGED <<hasAutosave, localStorage, imgs, app>>

\* handleUndo with faults:
\* the index is clamped at 0 and the entry there applied again
handleUndo_ClampApply ==
    /\ isEditingRemixSource
    /\ LET newIndex == IF currentIndex > 0 THEN currentIndex - 1 ELSE 0
       IN  /\ currentIndex' = newIndex
           /\ applyState(At(history, newIndex))
    /\ UNCHANGED history
    /\ Restart(FALSE)
    /\ Observe("handleUndo")
    /\ UNCHANGED <<hasAutosave, localStorage, imgs, app>>

\* the entry moved to is not applied
handleUndo_NoApply ==
    /\ isEditingRemixSource
    /\ IF currentIndex > 0
       THEN /\ currentIndex' = currentIndex - 1
            /\ UNCHANGED live
       ELSE UNCHANGED <<live, currentIndex>>
    /\ UNCHANGED history
    /\ Restart(FALSE)
    /\ Observe("handleUndo")
    /\ UNCHANGED <<hasAutosave, localStorage, imgs, app>>

handleUndo ==
    /\ isEditingRemixSource
    /\ IF currentIndex > 0
       THEN LET newIndex == currentIndex - 1
            IN  /\ currentIndex' = newIndex
                /\ IF HasEntry(history, newIndex)
                   THEN applyState(At(history, newIndex))
                   ELSE UNCHANGED live
       ELSE UNCHANGED <<live, currentIndex>>
    /\ UNCHANGED history
    /\ Restart(FALSE)
    /\ Observe("handleUndo")
    /\ UNCHANGED <<hasAutosave, localStorage, imgs, app>>

\* handleRedo with a fault: the sliders keep their live values
handleRedo_KeepsSliders ==
    /\ isEditingRemixSource
    /\ IF currentIndex < Len(history) - 1
       THEN LET newIndex == currentIndex + 1
            IN  /\ currentIndex' = newIndex
                /\ rotation' = At(history, newIndex).rotation
                /\ cropRatio' = At(history, newIndex).cropRatio
                /\ UNCHANGED <<brightness, contrast>>
       ELSE UNCHANGED <<live, currentIndex>>
    /\ UNCHANGED history
    /\ Restart(FALSE)
    /\ Observe("handleRedo")
    /\ UNCHANGED <<hasAutosave, localStorage, imgs, app>>

\* handleRedo with a fault: it moves to the last entry
handleRedo_ToEnd ==
    /\ isEditingRemixSource
    /\ IF currentIndex < Len(history) - 1
       THEN LET newIndex == Len(history) - 1
            IN  /\ currentIndex' = newIndex
                /\ applyState(At(history, newIndex))
       ELSE UNCHANGED <<live, currentIndex>>
    /\ UNCHANGED history
    /\ Restart(FALSE)
    /\ Observe("handleRedo")
    /\ UNCHANGED <<hasAutosave, localStorage, imgs, app>>

handleRedo ==
    /\ isEditingRemixSource
    /\ IF currentIndex < Len(history) - 1
       THEN LET newIndex == currentIndex + 1
            IN  /\ currentIndex' = newIndex
                /\ IF HasEntry(history, newIndex)
                   THEN applyState(At(history, newIndex))
                   ELSE UNCHANGED live
       ELSE UNCHANGED <<live, currentIndex>>
    /\ UNCHANGED history
    /\ Restart(FALSE)
    /\ Observe("handleRedo")
    /\ UNCHANGED <<hasAutosave, localStorage, imgs, app>>

\* handleReset with a fault: the history is kept
handleReset_KeepHistory ==
    /\ isEditingRemixSource
    /\ applyState(INITIAL_STATE)
    /\ UNCHANGED stack
    /\ Restart(FALSE)
    /\ Observe("handleReset")
    /\ UNCHANGED <<hasAutosave, localStorage, imgs, app>>

handleReset ==
    /\ isEditingRemixSource
    /\ applyState(INITIAL_STATE)
    /\ history' = <<INITIAL_STATE>>
    /\ currentIndex' = 0
    /\ Restart(TRUE)
    /\ Observe("handleReset")
    /\ UNCHANGED <<hasAutosave, localStorage, imgs, app>>

\* The Restore Session button, rendered only while hasAutosave.
handleRestoreAutosave ==
    /\ isEditingRemixSource
    /\ hasAutosave
    /\ IF SavedMatches(image)
       THEN LET parsed == JSON_parse(localStorage)
            IN  /\ brightness' = parsed.brightness
                /\ contrast' = parsed.contrast
                /\ rotation' = parsed.rotation
                /\ cropRatio' = parsed.cropRatio
                /\ history' = parsed.history
                /\ currentIndex' = parsed.currentIndex
                /\ Restart(TRUE)
       ELSE /\ UNCHANGED editor
            /\ Restart(FALSE)
    /\ Observe("handleRestoreAutosave")
    /\ UNCHANGED <<hasAutosave, localStorage, imgs, app>>

\* AutosaveTimer with a fault: an item of another image is left alone
AutosaveTimer_KeepsForeign ==
    /\ timer > 0
    /\ localStorage' = IF Len(localStorage) > 0 /\ ~SavedMatches(image)
                       THEN localStorage
                       ELSE JSON_stringify(stateToSave)
    /\ timer' = timer - 1
    /\ ObserveAs("autosaveTimer",
                 IF Len(localStorage) > 0 /\ ~SavedMatches(image) THEN "replaced" ELSE "done")
    /\ UNCHANGED <<editor, hasAutosave, imgs, app>>

\* The callback of the autosave effect's setTimeout.  The pending timeout is
\* that of the last render, so the values it closes over are the current ones.
\* The observed effect is "replaced" when the slot held an item that was not
\* of this image.
AutosaveTimer ==
    /\ timer > 0
    /\ localStorage' = JSON_stringify(stateToSave)
    /\ timer' = timer - 1
    /\ ObserveAs("autosaveTimer",
                 IF Len(localStorage) > 0 /\ ~SavedMatches(image) THEN "replaced" ELSE "done")
    /\ UNCHANGED <<editor, hasAutosave, imgs, app>>

\* AutosaveTimerThrows with a fault: the exception takes the editor down
AutosaveTimerThrows_Unmounts ==
    /\ timer > 0
    /\ isEditingRemixSource
    /\ timer' = 0
    /\ isEditingRemixSource' = FALSE
    /\ ObserveAs("autosaveTimerThrows", "failed")
    /\ UNCHANGED <<editor, hasAutosave, localStorage, imgs>>
    /\ UNCHANGED <<remixSourceImage, remixedImage, loading, error>>

\* The same callback when localStorage.setItem throws (quota exceeded, storage
\* disabled).  Nothing catches the exception; it ends the callback, which had
\* nothing left to do, and no React state is touched.
AutosaveTimerThrows ==
    /\ timer > 0
    /\ isEditingRemixSource
    /\ timer' = timer - 1
    /\ ObserveAs("autosaveTimerThrows", "failed")
    /\ UNCHANGED <<editor, hasAutosave, localStorage, imgs, app>>

----------------------------------------------------------------------------
(* The application shell *)

\* ImageUpload's onImageSelected, rendered while the editor is closed
SelectImage(n) ==
    /\ ~isEditingRemixSource
    /\ remixSourceImage' = n
    /\ UNCHANGED <<editor, hasAutosave, timer, localStorage, imgs>>
    /\ UNCHANGED <<isEditingRemixSource, remixedImage, loading, error>>
    /\ Observe("selectImage")

\* The Tools button: the editor mounts with its initial state and both of
\* its effects run: the autosave check and the first autosave timer.
OpenEditor ==
    /\ ~isEditingRemixSource
    /\ remixSourceImage /= 0
    /\ isEditingRemixSource' = TRUE
    /\ applyState(INITIAL_STATE)
    /\ history' = <<INITIAL_STATE>>
    /\ currentIndex' = 0
    /\ hasAutosave' = SavedMatches(image)
    /\ timer' = timer + 1
    /\ Observe("openEditor")
    /\ UNCHANGED <<localStorage, imgs, remixSourceImage, remixedImage, loading, error>>

\* Cancel with a fault: the autosave effect returns no cleanup
Cancel_NoCleanup ==
    /\ isEditingRemixSource
    /\ isEditingRemixSource' = FALSE
    /\ applyState(INITIAL_STATE)
    /\ history' = <<INITIAL_STATE>>
    /\ currentIndex' = 0
    /\ hasAutosave' = FALSE
    /\ timer' = timer
    /\ imgs' = [imgs EXCEPT !["open"] = 0, !["cancelled"] = @ + imgs["open"]]
    /\ Observe("cancel")
    /\ UNCHANGED <<localStorage, remixSourceImage, remixedImage, loading, error>>

\* The editor's Cancel button: the editor unmounts, its state is gone and
\* the autosave effect's cleanup clears the timer.
Cancel ==
    /\ isEditingRemixSource
    /\ isEditingRemixSource' = FALSE
    /\ applyState(INITIAL_STATE)
    /\ history' = <<INITIAL_STATE>>
    /\ currentIndex' = 0
    /\ hasAutosave' = FALSE
    /\ timer' = clearTimeout
    /\ imgs' = [imgs EXCEPT !["open"] = 0, !["cancelled"] = @ + imgs["open"]]
    /\ Observe("cancel")
    /\ UNCHANGED <<localStorage, remixSourceImage, remixedImage, loading, error>>

\* The Apply button: generateFinalImage creates an Image, sets its src and
\* its onload and returns.
generateFinalImage ==
    /\ isEditingRemixSource
    /\ imgs' = [imgs EXCEPT !["open"] = @ + 1]
    /\ canvas' = IF canvas.on
                 THEN [NoCanvas(TRUE) EXCEPT !.stage = "loading",
                                             !.brightness = brightness,
                                             !.contrast = contrast,
                                             !.rotation = rotation,
                                             !.cropRatio = cropRatio]
                 ELSE canvas
    /\ UNCHANGED <<editor, hasAutosave, timer, localStorage, app>>
    /\ Observe("generateFinalImage")

\* the loading Images without one whose editor is in condition s and, when the
\* editor unmounts in the step, with those of the mounted editor closed
ImgGone(s, unmounts) ==
    LET rest == [imgs EXCEPT ![s] = @ - 1]
        then == IF s = "open" THEN "saved" ELSE "closed"
    IN  IF unmounts
        THEN [rest EXCEPT !["open"] = 0, ![then] = @ + rest["open"]]
        ELSE rest

\* img.onload with both contexts obtained: the canvas is drawn and onSave is
\* called with its data URL.  onSave is App's handleSaveEditedImage: the
\* source becomes the output and the editor that is mounted, if one is,
\* unmounts; its state is gone and the cleanup clears its timer.
\* sizes: the natural sizes the decoded image may have
ImgOnloadOf(s, sizes) ==
    /\ imgs[s] > 0
    /\ imgs' = ImgGone(s, TRUE)
    /\ IF canvas.on
       THEN \E size \in sizes : canvas' = Drawn(size[1], size[2])
       ELSE UNCHANGED canvas
    /\ remixSourceImage' = toDataURL
    /\ isEditingRemixSource' = FALSE
    /\ applyState(INITIAL_STATE)
    /\ history' = <<INITIAL_STATE>>
    /\ currentIndex' = 0
    /\ hasAutosave' = FALSE
    /\ timer' = IF isEditingRemixSource THEN clearTimeout ELSE timer
    /\ ObserveAs("imgOnload", s)
    /\ UNCHANGED <<localStorage, remixedImage, loading, error>>

ImgOnload(s) == ImgOnloadOf(s, ImageSizes)

\* img.onload when getContext('2d') returns null: the callback returns
ImgOnloadNoContext(s) ==
    /\ imgs[s] > 0
    /\ imgs' = ImgGone(s, FALSE)
    /\ ObserveAs("imgOnloadNoContext", s)
    /\ UNCHANGED <<editor, hasAutosave, timer, localStorage, app>>

\* The image fails to decode: the Image fires its error event, for which
\* generateFinalImage sets no handler.
ImgOnerror(s) ==
    /\ imgs[s] > 0
    /\ imgs' = ImgGone(s, FALSE)
    /\ ObserveAs("imgOnerror", s)
    /\ UNCHANGED <<editor, hasAutosave, timer, localStorage, app>>

\* the images remixImage returns
RemixResults == {2}

\* The Remix Image button, rendered while the editor is not and disabled while
\* a request is loading; the instructions are taken to be filled in.
handleRemix ==
    /\ ~isEditingRemixSource
    /\ remixSourceImage /= 0
    /\ shell.on => shell.mode = "remix" /\ shell.remixPrompt
    /\ Clickable(loading)
    /\ loading' = TRUE
    /\ error' = "null"
    /\ shell' = IF shell.on
                THEN [shell EXCEPT !.pending["remix"] = @ + 1, !.is403Error = FALSE]
                ELSE shell
    /\ UNCHANGED <<editor, hasAutosave, timer, localStorage, imgs>>
    /\ UNCHANGED <<remixSourceImage, isEditingRemixSource, remixedImage>>
    /\ Observe("handleRemix")

\* handleRemix after its await: remixImage has returned image n
RemixResolved(n) ==
    /\ IF shell.on THEN shell.pending["remix"] > 0 ELSE loading
    /\ remixedImage' = n
    /\ loading' = FALSE
    /\ shell' = IF shell.on THEN [shell EXCEPT !.pending["remix"] = @ - 1] ELSE shell
    /\ UNCHANGED <<editor, hasAutosave, timer, localStorage, imgs>>
    /\ UNCHANGED <<remixSourceImage, isEditingRemixSource, error>>
    /\ Observe("remixResolved")

\* handleRemix after its await: remixImage has thrown
RemixRejected ==
    /\ IF shell.on THEN shell.pending["remix"] > 0 ELSE loading
    /\ \E err \in IF shell.on THEN Errors ELSE {EmptyError} :
         \E aistudio \in IF shell.on /\ err.notFound THEN BOOLEAN ELSE {FALSE} :
          /\ error' = handleError(err, Fallback["remix"])
          /\ shell' = IF shell.on
                      THEN [shell EXCEPT
                              !.pending["remix"] = @ - 1,
                              !.is403Error = @ \/ Sets403(err),
                              !.selecting = IF aistudio THEN @ + 1 ELSE @]
                      ELSE shell
    /\ loading' = FALSE
    /\ UNCHANGED <<editor, hasAutosave, timer, localStorage, imgs>>
    /\ UNCHANGED <<remixSourceImage, isEditingRemixSource, remixedImage>>
    /\ Observe("remixRejected")

\* The Continue Editing button of the remix result, rendered beside the editor
\* or the upload.  A mounted editor is given another image prop: it keeps its
\* state and the two effects that depend on image run again.
handleTransferToRemix ==
    /\ remixedImage /= 0
    /\ remixSourceImage' = remixedImage
    /\ remixedImage' = 0
    /\ IF isEditingRemixSource /\ remixedImage /= remixSourceImage
       THEN /\ hasAutosave' = (hasAutosave \/ SavedMatches(ImageData(remixedImage)))
            /\ timer' = clearTimeout + 1
       ELSE UNCHANGED <<hasAutosave, timer>>
    /\ shell' = IF shell.on
                THEN [shell EXCEPT !.remixPrompt = FALSE, !.mode = "remix"]
                ELSE shell
    /\ UNCHANGED <<editor, localStorage, imgs, isEditingRemixSource, loading, error>>
    /\ Observe("handleTransferToRemix")

\* A tab of the header, taken while the editor is not rendered
SetMode(m) ==
    /\ shell.on
    /\ ~isEditingRemixSource
    /\ shell' = [shell EXCEPT !.mode = m]
    /\ UNCHANGED <<editor, hasAutosave, timer, localStorage, imgs, app>>
    /\ Observe("setMode")

\* The upload of the analyze tab
SetAnalysisImage ==
    /\ shell.on
    /\ shell.mode = "analyze"
    /\ shell' = [shell EXCEPT !.analysisImage = TRUE]
    /\ UNCHANGED <<editor, hasAutosave, timer, localStorage, imgs, app>>
    /\ Observe("setAnalysisImage")

\* The prompt of the generate tab: filled tells whether the text is non-empty
SetGenerationPrompt(filled) ==
    /\ shell.on
    /\ shell.mode = "generate"
    /\ shell' = [shell EXCEPT !.generationPrompt = filled]
    /\ UNCHANGED <<editor, hasAutosave, timer, localStorage, imgs, app>>
    /\ Observe("setGenerationPrompt")

\* The instructions of the remix tab
SetRemixPrompt(filled) ==
    /\ shell.on
    /\ shell.mode = "remix"
    /\ ~isEditingRemixSource
    /\ shell' = [shell EXCEPT !.remixPrompt = filled]
    /\ UNCHANGED <<editor, hasAutosave, timer, localStorage, imgs, app>>
    /\ Observe("setRemixPrompt")

\* a handler up to its await: setLoading, setError(null), setIs403Error(false)
\* and the call of the service
StartRequest(r, op) ==
    /\ loading' = TRUE
    /\ error' = "null"
    /\ shell' = [shell EXCEPT !.pending[r] = @ + 1, !.is403Error = FALSE]
    /\ UNCHANGED <<editor, hasAutosave, timer, localStorage, imgs>>
    /\ UNCHANGED <<remixSourceImage, isEditingRemixSource, remixedImage>>
    /\ Observe(op)

\* handleGeneration with a fault: its button is disabled by the empty prompt
\* only
handleGeneration_NotDisabled ==
    /\ shell.on
    /\ shell.mode = "generate"
    /\ Clickable(~shell.generationPrompt)
    /\ shell.generationPrompt
    /\ StartRequest("generate", "handleGeneration")

\* The Analyze & Adapt button
handleAnalysis ==
    /\ shell.on
    /\ shell.mode = "analyze"
    /\ Clickable(~shell.analysisImage \/ loading)
    /\ shell.analysisImage
    /\ StartRequest("analyze", "handleAnalysis")

\* The Enhance button of the prompt
handleEnhancePrompt ==
    /\ shell.on
    /\ shell.mode = "generate"
    /\ Clickable(~shell.generationPrompt \/ loading)
    /\ shell.generationPrompt
    /\ StartRequest("enhance", "handleEnhancePrompt")

\* The Generate button
handleGeneration ==
    /\ shell.on
    /\ shell.mode = "generate"
    /\ Clickable(~shell.generationPrompt \/ loading)
    /\ shell.generationPrompt
    /\ StartRequest("generate", "handleGeneration")

\* handleAnalysis, handleEnhancePrompt or handleGeneration after its await:
\* the service has returned, the result is set and finally runs
RequestResolved(r) ==
    /\ shell.on
    /\ shell.pending[r] > 0
    /\ shell' = [shell EXCEPT !.pending[r] = @ - 1, !.results = @ \cup {r}]
    /\ loading' = FALSE
    /\ UNCHANGED <<editor, hasAutosave, timer, localStorage, imgs>>
    /\ UNCHANGED <<remixSourceImage, isEditingRemixSource, remixedImage, error>>
    /\ ObserveAs("requestResolved", r)

\* the same after the service has thrown err: handleError and finally run.
\* handleError calls handleSelectSystemKey when the message says the entity
\* was not found and window.aistudio exists.
RequestRejected(r) ==
    /\ shell.on
    /\ shell.pending[r] > 0
    /\ \E err \in Errors :
         \E aistudio \in IF err.notFound THEN BOOLEAN ELSE {FALSE} :
          /\ error' = handleError(err, Fallback[r])
          /\ shell' = [shell EXCEPT
                         !.pending[r] = @ - 1,
                         !.is403Error = @ \/ Sets403(err),
                         !.selecting = IF aistudio THEN @ + 1 ELSE @]
    /\ loading' = FALSE
    /\ UNCHANGED <<editor, hasAutosave, timer, localStorage, imgs>>
    /\ UNCHANGED <<remixSourceImage, isEditingRemixSource, remixedImage>>
    /\ ObserveAs("requestRejected", r)

\* The key buttons, where window.aistudio exists: openSelectKey is called
handleSelectSystemKey ==
    /\ shell.on
    /\ shell' = [shell EXCEPT !.selecting = @ + 1]
    /\ UNCHANGED <<editor, hasAutosave, timer, localStorage, imgs, app>>
    /\ Observe("handleSelectSystemKey")

\* handleSelectSystemKey after its await: the dialog has closed with a key
SelectKeyResolved ==
    /\ shell.on
    /\ shell.selecting > 0
    /\ error' = "null"
    /\ shell' = [shell EXCEPT !.selecting = @ - 1, !.is403Error = FALSE]
    /\ UNCHANGED <<editor, hasAutosave, timer, localStorage, imgs>>
    /\ UNCHANGED <<remixSourceImage, isEditingRemixSource, remixedImage, loading>>
    /\ Observe("selectKeyResolved")

\* the same when openSelectKey has thrown: the error is logged
SelectKeyRejected ==
    /\ shell.on
    /\ shell.selecting > 0
    /\ shell' = [shell EXCEPT !.selecting = @ - 1]
    /\ UNCHANGED <<editor, hasAutosave, timer, localStorage, imgs, app>>
    /\ Observe("selectKeyRejected")

----------------------------------------------------------------------------
(* Specifications *)

\* the bound on the length of the history, put on the steps that commit
Within(cap) == Len(history') <= cap

(* Spec: the application from its start.  Editors are opened and closed one *)
(* after the other on the same storage; of the two sliders the brightness    *)
(* one is used.                                                              *)

Init ==
    /\ brightness = INITIAL_STATE.brightness
    /\ contrast = INITIAL_STATE.contrast
    /\ rotation = INITIAL_STATE.rotation
    /\ cropRatio = INITIAL_STATE.cropRatio
    /\ history = <<INITIAL_STATE>>
    /\ currentIndex = 0
    /\ hasAutosave = FALSE
    /\ timer = 0
    /\ localStorage = <<>>
    /\ imgs = NoImgs
    /\ remixSourceImage = 0
    /\ isEditingRemixSource = FALSE
    /\ remixedImage = 0
    /\ loading = FALSE
    /\ error = "null"
    /\ lastOp = "none"
    /\ effect = "done"
    /\ undone = <<>>
    /\ offered = [on |-> FALSE, text |-> <<>>]
    /\ canvas = NoCanvas(FALSE)
    /\ shell = NoShell(FALSE)

Next ==
    \/ \E v \in SliderInputs : SetBrightness(v)
    \/ commitSliderChange /\ Within(MaxHistory)
    \/ handleRotate /\ Within(MaxHistory)
    \/ \E ratio \in CropInputs : handleCropChange(ratio) /\ Within(MaxHistory)
    \/ handleUndo
    \/ handleRedo
    \/ handleReset
    \/ handleRestoreAutosave
    \/ AutosaveTimer
    \/ \E n \in Images : SelectImage(n)
    \/ OpenEditor
    \/ Cancel

Spec == Init /\ [][Next]_vars

(* SpecEditor: one editor from its mount on image 1 with nothing in storage, *)
(* used without a pause long enough for the autosave timer to fire.          *)

InitEditor ==
    /\ brightness = INITIAL_STATE.brightness
    /\ contrast = INITIAL_STATE.contrast
    /\ rotation = INITIAL_STATE.rotation
    /\ cropRatio = INITIAL_STATE.cropRatio
    /\ history = <<INITIAL_STATE>>
    /\ currentIndex = 0
    /\ hasAutosave = FALSE
    /\ timer = 1
    /\ localStorage = <<>>
    /\ imgs = NoImgs
    /\ remixSourceImage = 1
    /\ isEditingRemixSource = TRUE
    /\ remixedImage = 0
    /\ loading = FALSE
    /\ error = "null"
    /\ lastOp = "openEditor"
    /\ effect = "done"
    /\ undone = <<>>
    /\ offered = [on |-> FALSE, text |-> <<>>]
    /\ canvas = NoCanvas(FALSE)
    /\ shell = NoShell(FALSE)

NextEditor ==
    \/ \E v \in SliderInputs : SetBrightness(v)
    \/ \E v \in SliderInputs : SetContrast(v)
    \/ commitSliderChange /\ Within(MaxEditorHistory)
    \/ handleRotate /\ Within(MaxEditorHistory)
    \/ \E ratio \in CropInputs : handleCropChange(ratio) /\ Within(MaxEditorHistory)
    \/ handleUndo
    \/ handleRedo
    \/ handleReset

SpecEditor == InitEditor /\ [][NextEditor]_vars

(* SpecTransform: one editor as in SpecEditor, in which only the transform  *)
(* tools (rotate and every crop button), undo, redo and reset are used.      *)

NextTransform ==
    \/ handleRotate /\ Within(MaxTransformHistory)
    \/ \E i \in 1..Len(CropButtons) :
          handleCropChange(CropButtons[i]) /\ Within(MaxTransformHistory)
    \/ handleUndo
    \/ handleRedo
    \/ handleReset

SpecTransform == InitEditor /\ [][NextTransform]_vars

(* SpecRemix: the application from its start with one upload, the editor's   *)
(* rotate tool, the autosave and remix requests whose result can be taken    *)
(* over as the source while the editor is open.                              *)

InitRemix ==
    /\ brightness = INITIAL_STATE.brightness
    /\ contrast = INITIAL_STATE.contrast
    /\ rotation = INITIAL_STATE.rotation
    /\ cropRatio = INITIAL_STATE.cropRatio
    /\ history = <<INITIAL_STATE>>
    /\ currentIndex = 0
    /\ hasAutosave = FALSE
    /\ timer = 0
    /\ localStorage = <<>>
    /\ imgs = NoImgs
    /\ remixSourceImage = 0
    /\ isEditingRemixSource = FALSE
    /\ remixedImage = 0
    /\ loading = FALSE
    /\ error = "null"
    /\ lastOp = "none"
    /\ effect = "done"
    /\ undone = <<>>
    /\ offered = [on |-> TRUE, text |-> <<>>]
    /\ canvas = NoCanvas(FALSE)
    /\ shell = NoShell(FALSE)

NextRemix ==
    \/ \E n \in Images \ RemixResults : SelectImage(n)
    \/ OpenEditor
    \/ Cancel
    \/ handleRotate /\ Within(MaxRemixHistory)
    \/ handleUndo
    \/ handleRestoreAutosave
    \/ AutosaveTimer
    \/ handleRemix
    \/ \E n \in RemixResults : RemixResolved(n)
    \/ RemixRejected
    \/ handleTransferToRemix

SpecRemix == InitRemix /\ [][NextRemix]_vars

(* SpecApply: the application from its start with one upload, the editor's   *)
(* brightness slider and rotate tool, the autosave timer, Apply and Cancel.  *)

\* the bound on the number of Images that are loading, put on Apply
LoadingWithin(cap) ==
    imgs'["open"] + imgs'["cancelled"] + imgs'["closed"] + imgs'["saved"] <= cap

NextApply ==
    \/ \E n \in Images \ RemixResults : SelectImage(n)
    \/ OpenEditor
    \/ Cancel
    \/ \E v \in SliderInputs : SetBrightness(v)
    \/ handleRotate /\ Within(MaxApplyHistory)
    \/ handleUndo
    \/ AutosaveTimer
    \/ generateFinalImage /\ LoadingWithin(MaxImgs)
    \/ \E s \in ImgStatus : ImgOnload(s)
    \/ \E s \in ImgStatus : ImgOnloadNoContext(s)
    \/ \E s \in ImgStatus : ImgOnerror(s)

SpecApply == Init /\ [][NextApply]_vars

----------------------------------------------------------------------------
(* The editor over whatever the storage slot holds *)

MaxStoredHistory == 2

\* a stored object with the signature of img
StoredRecord(img, b, h, i) ==
    JSON_stringify([imageSignature |-> getImageSignature(ImageData(img)),
                    brightness |-> b,
                    contrast |-> INITIAL_STATE.contrast,
                    rotation |-> INITIAL_STATE.rotation,
                    cropRatio |-> INITIAL_STATE.cropRatio,
                    history |-> h,
                    currentIndex |-> i])

\* a text that is not JSON
Unparsable == << <<"{">> >>

\* What the slot may hold when the application starts.  localStorage is
\* shared by every script of the origin and outlives the program's versions,
\* so the item need not be one this code wrote: nothing, a text that does not
\* parse, a genuine snapshot of the image or of another image, and objects
\* that carry the image's signature but an empty history or an index past
\* the history's end.
StoredTexts ==
    { <<>>, Unparsable,
      StoredRecord(1, 150, <<INITIAL_STATE, EditorState(150, 100, 0, "original")>>, 1),
      StoredRecord(2, 100, <<INITIAL_STATE>>, 0),
      StoredRecord(1, 100, <<>>, 0),
      StoredRecord(1, 100, <<INITIAL_STATE>>, 2) }

InitStored ==
    /\ brightness = INITIAL_STATE.brightness
    /\ contrast = INITIAL_STATE.contrast
    /\ rotation = INITIAL_STATE.rotation
    /\ cropRatio = INITIAL_STATE.cropRatio
    /\ history = <<INITIAL_STATE>>
    /\ currentIndex = 0
    /\ hasAutosave = FALSE
    /\ timer = 0
    /\ localStorage \in StoredTexts
    /\ imgs = NoImgs
    /\ remixSourceImage = 0
    /\ isEditingRemixSource = FALSE
    /\ remixedImage = 0
    /\ loading = FALSE
    /\ error = "null"
    /\ lastOp = "none"
    /\ effect = "done"
    /\ undone = <<>>
    /\ offered = [on |-> FALSE, text |-> <<>>]
    /\ canvas = NoCanvas(FALSE)
    /\ shell = NoShell(FALSE)

NextStored ==
    \/ SelectImage(1)
    \/ OpenEditor
    \/ Cancel
    \/ \E v \in SliderInputs : SetBrightness(v)
    \/ commitSliderChange /\ Within(MaxStoredHistory)
    \/ handleRotate /\ Within(MaxStoredHistory)
    \/ handleUndo
    \/ handleRedo
    \/ handleRestoreAutosave
    \/ AutosaveTimer
    \/ AutosaveTimerThrows

SpecStored == InitStored /\ [][NextStored]_vars

----------------------------------------------------------------------------
(* Rotate, crop and apply over images of every size *)

InitCrop ==
    /\ brightness = INITIAL_STATE.brightness
    /\ contrast = INITIAL_STATE.contrast
    /\ rotation = INITIAL_STATE.rotation
    /\ cropRatio = INITIAL_STATE.cropRatio
    /\ history = <<INITIAL_STATE>>
    /\ currentIndex = 0
    /\ hasAutosave = FALSE
    /\ timer = 0
    /\ localStorage = <<>>
    /\ imgs = NoImgs
    /\ remixSourceImage = 0
    /\ isEditingRemixSource = FALSE
    /\ remixedImage = 0
    /\ loading = FALSE
    /\ error = "null"
    /\ lastOp = "none"
    /\ effect = "done"
    /\ undone = <<>>
    /\ offered = [on |-> FALSE, text |-> <<>>]
    /\ canvas = NoCanvas(TRUE)
    /\ shell = NoShell(FALSE)

\* The user turns and crops, presses Apply and waits for the image: no edit
\* is made while an Image of the open editor loads, so the values its callback
\* closed over are those of canvas.
Waiting == imgs["open"] > 0

NextCrop ==
    \/ SelectImage(1)
    \/ OpenEditor
    \/ handleRotate /\ Within(MaxCropHistory) /\ ~Waiting
    \/ \E i \in DOMAIN CropButtons :
          handleCropChange(CropButtons[i]) /\ Within(MaxCropHistory) /\ ~Waiting
    \/ generateFinalImage /\ LoadingWithin(MaxCropImgs)
    \/ ImgOnload("open")

SpecCrop == InitCrop /\ [][NextCrop]_vars

----------------------------------------------------------------------------
(* The application shell and the image service *)

MaxInFlight == 2
MaxDialogs == 1

\* the bound on the requests that are awaited, put on the four buttons
InFlightWithin(cap) == InFlight(shell') <= cap

\* the bound on the key dialogs that are awaited
DialogsWithin(cap) == shell'.selecting <= cap

\* a request of service r returns
Resolved(r) ==
    IF r = "remix" THEN \E n \in RemixResults : RemixResolved(n) ELSE RequestResolved(r)

\* a request of service r throws
Rejected(r) ==
    IF r = "remix" THEN RemixRejected ELSE RequestRejected(r)

\* the promise of a request of service r is settled and the continuation of
\* its handler runs
Settled(r) == (Resolved(r) \/ Rejected(r)) /\ DialogsWithin(MaxDialogs)

InitShell ==
    /\ brightness = INITIAL_STATE.brightness
    /\ contrast = INITIAL_STATE.contrast
    /\ rotation = INITIAL_STATE.rotation
    /\ cropRatio = INITIAL_STATE.cropRatio
    /\ history = <<INITIAL_STATE>>
    /\ currentIndex = 0
    /\ hasAutosave = FALSE
    /\ timer = 0
    /\ localStorage = <<>>
    /\ imgs = NoImgs
    /\ remixSourceImage = 0
    /\ isEditingRemixSource = FALSE
    /\ remixedImage = 0
    /\ loading = FALSE
    /\ error = "null"
    /\ lastOp = "none"
    /\ effect = "done"
    /\ undone = <<>>
    /\ offered = [on |-> FALSE, text |-> <<>>]
    /\ canvas = NoCanvas(FALSE)
    /\ shell = NoShell(TRUE)

NextShell ==
    \/ \E m \in AppMode : SetMode(m)
    \/ SetAnalysisImage
    \/ \E filled \in BOOLEAN : SetGenerationPrompt(filled)
    \/ \E filled \in BOOLEAN : SetRemixPrompt(filled)
    \/ SelectImage(1)
    \/ handleAnalysis /\ InFlightWithin(MaxInFlight)
    \/ handleEnhancePrompt /\ InFlightWithin(MaxInFlight)
    \/ handleGeneration /\ InFlightWithin(MaxInFlight)
    \/ handleRemix /\ InFlightWithin(MaxInFlight)
    \/ \E r \in Requests : Settled(r)
    \/ handleTransferToRemix
    \/ handleSelectSystemKey /\ DialogsWithin(MaxDialogs)
    \/ SelectKeyResolved
    \/ SelectKeyRejected

SpecShell == InitShell /\ [][NextShell]_vars

\* A call of the image service returns or throws: the promise a handler
\* awaits is settled, and its continuation then runs.
SpecShellFair ==
    SpecShell /\ \A r \in Requests : WF_vars(Settled(r))

----------------------------------------------------------------------------
(* The editor that stays in use while its image loads *)

MaxOutputHistory == 2

\* the natural sizes of the images of this specification
OutputSizes == {<<1000, 500>>, <<3, 2>>}

\* The user moves both sliders, commits, turns and crops before and after
\* pressing Apply; the Image of the press loads at some later time.  canvas
\* holds the values of one callback, so Apply is pressed once per editor.
NextOutput ==
    \/ SelectImage(1)
    \/ OpenEditor
    \/ \E v \in SliderInputs : SetBrightness(v)
    \/ \E v \in SliderInputs : SetContrast(v)
    \/ commitSliderChange /\ Within(MaxOutputHistory)
    \/ handleRotate /\ Within(MaxOutputHistory)
    \/ handleCropChange("1:1") /\ Within(MaxOutputHistory)
    \/ generateFinalImage /\ ~Waiting
    \/ ImgOnloadOf("open", OutputSizes)

SpecOutput == InitCrop /\ [][NextOutput]_vars

----------------------------------------------------------------------------
(* Properties *)

\* the default EditParameters, written out
Default == [brightness |-> 100, contrast |-> 100, rotation |-> 0, cropRatio |-> "original"]

\* the live parameters as one EditParameters value
Live == EditorState(brightness, contrast, rotation, cropRatio)

\* C1: in every reachable state the history is non-empty and
\* 0 <= currentIndex < length(history).
C1_IndexInRange ==
    /\ Len(history) >= 1
    /\ currentIndex \in 0..(Len(history) - 1)

\* a restore has brought back a history of more than one entry
C1_Witness ==
    /\ lastOp = "handleRestoreAutosave"
    /\ effect = "restored"
    /\ Len(history) > 1
    /\ currentIndex = Len(history) - 1

\* C2: a commit of a candidate that differs from history[currentIndex] makes the
\* history the old history[0..currentIndex] followed by the candidate and sets
\* currentIndex to the last position; a redo right after a commit made before
\* the end of the history changes nothing.
C2_CommitTruncatesAndAppends ==
    [][ /\ (lastOp' \in CommitOps /\ Live' /= At(history, currentIndex))
            => /\ history' = Append(SubSeq(history, 1, currentIndex + 1), Live')
               /\ currentIndex' = Len(history') - 1
        /\ (effect = "truncate" /\ lastOp' = "handleRedo")
            => UNCHANGED editor
      ]_vars

\* a commit made at index 0 of a longer history: the entries after it are gone
C2_Witness ==
    /\ effect = "truncate"
    /\ currentIndex = 1
    /\ Len(history) = 2

\* C3: a commit of a candidate equal to history[currentIndex] leaves the history
\* and currentIndex unchanged, also when currentIndex is not at the end.
C3_EqualCommitIsNoOp ==
    [][ (lastOp' \in CommitOps /\ Live' = At(history, currentIndex))
            => UNCHANGED stack
      ]_vars

\* an equal commit made before the end of the history: the redo branch is kept
C3_Witness ==
    /\ effect = "same"
    /\ currentIndex < Len(history) - 1

\* C4: undo at currentIndex = 0 and redo at the last position change neither the
\* history, nor currentIndex, nor a live parameter.
C4_BoundaryRejected ==
    [][ (\/ lastOp' = "handleUndo" /\ currentIndex = 0
         \/ lastOp' = "handleRedo" /\ currentIndex = Len(history) - 1)
            => UNCHANGED editor
      ]_vars

\* an undo was rejected while a slider value was not yet committed
C4_Witness ==
    /\ lastOp = "handleUndo"
    /\ effect = "rejected"
    /\ currentIndex = 0
    /\ Len(history) > 1
    /\ brightness /= At(history, 0).brightness

\* C5: an undo with currentIndex > 0 decrements currentIndex by one, a redo with
\* currentIndex < length-1 increments it by one; the history is unchanged and
\* the live parameters equal history[currentIndex] afterwards.
C5_UndoRedoMoveByOne ==
    [][ /\ (lastOp' = "handleUndo" /\ currentIndex > 0)
            => /\ currentIndex' = currentIndex - 1
               /\ history' = history
               /\ Live' = At(history', currentIndex')
        /\ (lastOp' = "handleRedo" /\ currentIndex < Len(history) - 1)
            => /\ currentIndex' = currentIndex + 1
               /\ history' = history
               /\ Live' = At(history', currentIndex')
      ]_vars

\* an undo has replaced live parameters that were ahead of the history
C5_Witness ==
    /\ lastOp = "handleUndo"
    /\ effect = "moved"
    /\ undone /= <<>>
    /\ undone[1].live /= live
    /\ Live = At(history, currentIndex)
    /\ currentIndex > 0

\* C6: from a state reached by commits (currentIndex at the end), and from
\* any state with currentIndex > 0, undo followed immediately by redo restores
\* history[currentIndex] and currentIndex to what they were before the undo.
C6_UndoRedoRoundTrip ==
    (/\ lastOp = "handleRedo"
     /\ undone /= <<>>
     /\ ~undone[1].fresh
     /\ (\/ undone[1].currentIndex = Len(undone[1].history) - 1
         \/ undone[1].currentIndex > 0))
        => /\ currentIndex = undone[1].currentIndex
           /\ At(history, currentIndex) = At(undone[1].history, undone[1].currentIndex)

\* a redo right after an undo, with a further entry still ahead
C6_Witness ==
    /\ lastOp = "handleRedo"
    /\ undone /= <<>>
    /\ ~undone[1].fresh
    /\ currentIndex >= 1
    /\ currentIndex < Len(history) - 1

\* C7: reset yields a history of length 1 holding the default, currentIndex 0
\* and default live parameters; undo and redo right after it are no-ops.
C7_ResetToDefault ==
    [][ /\ lastOp' = "handleReset"
            => /\ history' = <<Default>>
               /\ currentIndex' = 0
               /\ Live' = Default
        /\ (lastOp = "handleReset" /\ lastOp' \in {"handleUndo", "handleRedo"})
            => UNCHANGED editor
      ]_vars

\* a reset has run on a history of more than one entry
C7_Witness ==
    /\ lastOp = "handleReset"
    /\ effect = "cleared"
    /\ Len(history) = 1
    /\ currentIndex = 0
    /\ Live = Default

\* C8: in every reachable state history[0] is the default EditParameters.
C8_FirstEntryIsDefault == At(history, 0) = Default

\* a restore has brought back a history whose later entry is not the default
C8_Witness ==
    /\ lastOp = "handleRestoreAutosave"
    /\ effect = "restored"
    /\ Len(history) > 1
    /\ currentIndex = 0
    /\ At(history, 1) /= Default

\* C9: setBrightness and setContrast change only their own live parameter and
\* leave the history and currentIndex unchanged; the commit at the end of the
\* gesture adds at most one entry.
C9_SlidersLeaveHistory ==
    [][ /\ lastOp' = "setBrightness"
            => UNCHANGED <<contrast, rotation, cropRatio, history, currentIndex>>
        /\ lastOp' = "setContrast"
            => UNCHANGED <<brightness, rotation, cropRatio, history, currentIndex>>
        /\ lastOp' = "commitSliderChange"
            => Len(history') <= Len(history) + 1
      ]_vars

\* both sliders hold values that are in no history entry
C9_Witness ==
    /\ lastOp \in {"setBrightness", "setContrast"}
    /\ \A i \in 0..(Len(history) - 1) :
          /\ At(history, i).brightness /= brightness
          /\ At(history, i).contrast /= contrast
    /\ Len(history) > 1

\* C10: rotate sets rotation to (rotation + 90) mod 360 and appends exactly one
\* entry carrying it (length = old currentIndex + 2, currentIndex last); a crop
\* change to another ratio appends exactly one entry carrying the new ratio;
\* neither adds more than one entry.
C10_DiscreteEditsCommitOnce ==
    [][ /\ lastOp' = "handleRotate"
            => /\ rotation' = (rotation + 90) % 360
               /\ history' = Append(SubSeq(history, 1, currentIndex + 1),
                                    EditorState(brightness, contrast,
                                                (rotation + 90) % 360, cropRatio))
               /\ Len(history') = currentIndex + 2
               /\ currentIndex' = Len(history') - 1
        /\ (lastOp' = "handleCropChange" /\ cropRatio' /= cropRatio)
            => /\ history' = Append(SubSeq(history, 1, currentIndex + 1),
                                    EditorState(brightness, contrast, rotation, cropRatio'))
               /\ currentIndex' = Len(history') - 1
        /\ lastOp' \in {"handleRotate", "handleCropChange"}
            => Len(history') <= Len(history) + 1
      ]_vars

\* the fourth rotation in a row: the angle is back at 0
C10_Witness ==
    /\ lastOp = "handleRotate"
    /\ rotation = 0
    /\ Len(history) = 5
    /\ At(history, 3).rotation = 270

\* the signatures stored under the autosave key: none or one
StoredSignatures ==
    {localStorage[i][2] : i \in {j \in 1..Len(localStorage) : localStorage[j][1] = "imageSignature"}}

\* the signature of the image the editor is given
CurrentSignature == getImageSignature(ImageData(remixSourceImage))

\* C11: when the editor mounts the restore is offered exactly when storage
\* holds a snapshot whose signature equals that of the editor's image; a
\* restore pressed while the stored signature differs from that of the current
\* image changes no live parameter, nor the history, nor currentIndex.
C11_RestoreGatedBySignature ==
    [][ /\ lastOp' = "openEditor"
            => (hasAutosave' <=> CurrentSignature' \in StoredSignatures')
        /\ (lastOp' = "handleRestoreAutosave" /\ CurrentSignature \notin StoredSignatures)
            => UNCHANGED editor
      ]_vars

\* a restore was pressed on an edited session whose image had been replaced:
\* the stored snapshot is that of the image before
C11_Witness ==
    /\ lastOp = "handleRestoreAutosave"
    /\ effect = "ignored"
    /\ StoredSignatures /= {}
    /\ Len(history) > 1

\* the restore is offered for the image the stored snapshot was written from
C11_Offered ==
    /\ lastOp = "openEditor"
    /\ hasAutosave
    /\ CurrentSignature \in StoredSignatures

\* the restore is not offered: the stored snapshot is that of another image
C11_NotOffered ==
    /\ lastOp = "openEditor"
    /\ ~hasAutosave
    /\ StoredSignatures /= {}

\* C12: after a restore the live parameters, the history and currentIndex are
\* those of the snapshot that was in storage when the editor mounted and that
\* caused the offer, whatever the autosave timer did since.
C12_RestoresOfferedSnapshot ==
    (lastOp = "handleRestoreAutosave" /\ effect = "restored" /\ offered.text /= <<>>)
        => LET snapshot == JSON_parse(offered.text)
           IN  /\ brightness = snapshot.brightness
               /\ contrast = snapshot.contrast
               /\ rotation = snapshot.rotation
               /\ cropRatio = snapshot.cropRatio
               /\ history = snapshot.history
               /\ currentIndex = snapshot.currentIndex

\* the handlers that edit: the sliders, the commit at the end of their gesture,
\* rotate, the crop buttons, undo, redo and reset
EditOps ==
    {"setBrightness", "setContrast", "commitSliderChange", "handleRotate",
     "handleCropChange", "handleUndo", "handleRedo", "handleReset"}

\* C13: once an edit or a restore has happened the restore is no longer
\* offered: after an edit handler that was not rejected, and after a restore,
\* the Restore Session button is not rendered.
C13_OfferForfeited ==
    (\/ lastOp \in EditOps /\ effect /= "rejected"
     \/ lastOp = "handleRestoreAutosave")
        => ~hasAutosave

\* C14: an editor in which nothing has changed since it mounted does not
\* write to storage, so the snapshot of another image found at the mount
\* stays as it is.
C14_NoWriteWithoutChange ==
    [][ lastOp = "openEditor" => UNCHANGED localStorage ]_vars

\* the stored snapshot holds the editor's state
StoredIsCurrent(text) ==
    LET snapshot == JSON_parse(text)
    IN  /\ snapshot.imageSignature = CurrentSignature
        /\ EditorState(snapshot.brightness, snapshot.contrast,
                       snapshot.rotation, snapshot.cropRatio) = Live
        /\ snapshot.history = history
        /\ snapshot.currentIndex = currentIndex

\* C15: at most one autosave timer is pending; a step of a mounted editor that
\* changes a live parameter, the history or currentIndex leaves exactly one
\* pending, the one it started; the timer that fires was pending, writes the
\* state as it is after the last change, and is not followed by a second
\* write unless a handler ran between.
C15_TimerCoalesced ==
    [][ /\ timer' <= 1
        /\ (isEditingRemixSource /\ isEditingRemixSource' /\ editor' /= editor)
            => timer' = 1
        /\ lastOp' = "autosaveTimer"
            => /\ timer = 1
               /\ timer' = 0
               /\ StoredIsCurrent(localStorage')
               /\ lastOp /= "autosaveTimer"
      ]_vars

\* a burst of two changes, a slider move and its commit, has one timer pending
\* after an earlier burst was written
C15_Witness ==
    /\ lastOp = "commitSliderChange"
    /\ effect = "append"
    /\ timer = 1
    /\ Len(localStorage) > 0
    /\ ~StoredIsCurrent(localStorage)

\* C16: the autosave timer fires only while the editor is mounted, and every
\* step that unmounts the editor, onCancel or onSave, leaves no timer pending.
C16_NoWriteAfterTeardown ==
    [][ /\ lastOp' = "autosaveTimer" => isEditingRemixSource
        /\ lastOp' \in UnmountOps => timer' = 0
      ]_vars

\* onSave has unmounted an editor whose timer, set at the mount, had not
\* fired: nothing was ever written
C16_Witness ==
    /\ lastOp = "imgOnload"
    /\ effect = "open"
    /\ ~isEditingRemixSource
    /\ timer = 0
    /\ localStorage = <<>>

\* the number of Images that are loading
Loading == imgs["open"] + imgs["cancelled"] + imgs["closed"] + imgs["saved"]

\* C17: onSave is never called for an editor that was cancelled, also when
\* its Apply was pressed before the cancel and the Image was still loading.
C17_NoOutputAfterCancel ==
    ~(lastOp = "imgOnload" /\ effect = "cancelled")

\* C18: while an Image created by Apply is loading for the mounted editor, no
\* edit handler and no restore changes a live parameter, the history or
\* currentIndex.
C18_NoEditWhileApplying ==
    [][ (imgs["open"] > 0 /\ lastOp' \in EditOps \cup {"handleRestoreAutosave"})
            => UNCHANGED editor
      ]_vars

\* C19: when the image of an Apply fails to decode, no output is handed over,
\* the editor stays mounted with its live parameters, history and currentIndex
\* unchanged, and the failure is reported: App has an error to show.
C19_DecodeFailureReported ==
    [][ (lastOp' = "imgOnerror" /\ effect' = "open")
            => /\ UNCHANGED <<editor, remixSourceImage, isEditingRemixSource>>
               /\ error' /= "null"
      ]_vars

\* C20: an Apply does not end silently: when an Image stops loading, either
\* its output is handed to onSave or a failure is reported to App.
C20_ApplySurfacesOutcome ==
    [][ Loading' < Loading
            => \/ lastOp' = "imgOnload"
               \/ error' /= "null"
      ]_vars

----------------------------------------------------------------------------
(* Storage failures *)

\* the text is a snapshot: it parses and its index names an entry of its
\* history
ValidStored(text) ==
    /\ Len(text) > 0
    /\ Parsable(text)
    /\ LET parsed == JSON_parse(text)
       IN  HasEntry(parsed.history, parsed.currentIndex)

\* C21: stored data that is absent, unparsable or structurally invalid is
\* treated as absent: the session-start check offers nothing for it, a
\* restore leaves live parameters, history and currentIndex as they were, and
\* currentIndex names an entry of the history in every state of an open editor.
C21_LoadFailsSoft ==
    [][ /\ (lastOp' = "openEditor" /\ ~ValidStored(localStorage))
            => (~hasAutosave' /\ history' = <<Default>> /\ currentIndex' = 0 /\ Live' = Default)
        /\ (lastOp' = "handleRestoreAutosave" /\ ~ValidStored(localStorage))
            => UNCHANGED editor
        /\ isEditingRemixSource' => HasEntry(history', currentIndex') ]_vars

\* C22: a storage failure during the autosave write never interrupts editing:
\* the write is abandoned (the slot keeps what it held), live parameters,
\* history and currentIndex are unchanged, and the editor stays open, so every
\* edit operation remains available.
C22_WriteFailureHarmless ==
    [][ lastOp' = "autosaveTimerThrows"
            => /\ UNCHANGED <<editor, hasAutosave, localStorage>>
               /\ isEditingRemixSource /\ isEditingRemixSource'
               /\ UNCHANGED <<remixSourceImage, loading, error>> ]_vars

\* a write failed while the session held uncommitted-to-storage edits
C22_Witness ==
    /\ lastOp = "autosaveTimerThrows"
    /\ isEditingRemixSource
    /\ Len(history) > 1
    /\ localStorage = <<>>

----------------------------------------------------------------------------
(* One source per session *)

\* C23: whenever the image of an open editor becomes a different image,
\* editing continues in a new session: the history is the single default
\* entry, currentIndex is 0 and the live parameters are the defaults.
C23_NewSourceNewSession ==
    [][ (isEditingRemixSource /\ isEditingRemixSource' /\ remixSourceImage' /= remixSourceImage)
            => (history' = <<Default>> /\ currentIndex' = 0 /\ Live' = Default) ]_vars

----------------------------------------------------------------------------
(* Crop geometry *)

\* the rotated buffer of the canvas that was drawn
BufferWidth == rotatedWidth(canvas.imgWidth, canvas.imgHeight, canvas.rotation)

BufferHeight == rotatedHeight(canvas.imgWidth, canvas.imgHeight, canvas.rotation)

Equal(a, b) == Compare(a, b) = 0

Magnitude(a) == [a EXCEPT !.neg = FALSE]

\* a * 2^k
Scaled(a, k) == [a EXCEPT !.e = @ + k]

\* C24: the crop region lies inside the rotated buffer and is centered:
\* 0 <= x, 0 <= y, x + width <= W, y + height <= H, x = (W - width) / 2 and
\* y = (H - height) / 2; for "original" it is the whole buffer.  The order
\* relations are those of the exact values; the two quotients are taken as
\* the language computes them, and their exact values differ from the
\* computed ones by at most W * 2^-54 and H * 2^-54.
C24_CropInsideAndCentered ==
    canvas.stage = "drawn" =>
        LET c == canvas.crop
            W == Num(BufferWidth)
            H == Num(BufferHeight)
        IN  /\ Compare(c.x, Num(0)) >= 0
            /\ Compare(c.y, Num(0)) >= 0
            /\ Compare(ExactSum(c.x, c.width), W) <= 0
            /\ Compare(ExactSum(c.y, c.height), H) <= 0
            /\ Equal(c.x, Over(Minus(W, c.width), Num(2)))
            /\ Equal(c.y, Over(Minus(H, c.height), Num(2)))
            /\ Compare(Scaled(Magnitude(ExactDifference(ExactSum(ExactSum(c.x, c.x), c.width), W)), Precision), W) <= 0
            /\ Compare(Scaled(Magnitude(ExactDifference(ExactSum(ExactSum(c.y, c.y), c.height), H)), Precision), H) <= 0
            /\ canvas.cropRatio = "original"
                 => /\ Equal(c.x, Num(0)) /\ Equal(c.y, Num(0))
                    /\ Equal(c.width, W) /\ Equal(c.height, H)

\* a region cut from inside a turned buffer, with a margin that is not a
\* whole number of pixels
C24_Witness ==
    /\ canvas.stage = "drawn"
    /\ canvas.cropRatio = "4:3"
    /\ canvas.rotation = 90
    /\ Compare(canvas.crop.x, Num(0)) > 0
    /\ ~Equal(ExactSum(ExactSum(canvas.crop.x, canvas.crop.x), canvas.crop.width), Num(BufferWidth))

\* the statement of C25 as it was made, with the language's arithmetic: the
\* region has exactly the target ratio, width * h = height * w, and if
\* W/H > w/h then height = H and width = H*w/h, otherwise width = W and
\* height = W*h/w
C25_ExactAspect ==
    (canvas.stage = "drawn" /\ canvas.cropRatio /= "original") =>
        LET c == canvas.crop
            w == RatioParts(canvas.cropRatio)[1]
            h == RatioParts(canvas.cropRatio)[2]
            W == Num(BufferWidth)
            H == Num(BufferHeight)
        IN  /\ Equal(Times(c.width, Num(h)), Times(c.height, Num(w)))
            /\ IF Compare(Over(W, H), Over(Num(w), Num(h))) > 0
               THEN Equal(c.height, H) /\ Equal(c.width, Over(Times(H, Num(w)), Num(h)))
               ELSE Equal(c.width, W) /\ Equal(c.height, Over(Times(W, Num(h)), Num(w)))

\* C25: for every ratio w:h other than original the crop region keeps one
\* dimension of the rotated buffer and has the target aspect ratio to within
\* rounding: if W/H > w/h then height = H and |width*h - H*w| <= H*w * 2^-52,
\* otherwise width = W and |height*w - W*h| <= W*h * 2^-52; the ratio is
\* exact, width * h = height * w, whenever H*w/h, respectively W*h/w, is an
\* integer.  All relations are those of the exact values.
C25_AspectWithinRounding ==
    (canvas.stage = "drawn" /\ canvas.cropRatio /= "original") =>
        LET c == canvas.crop
            w == RatioParts(canvas.cropRatio)[1]
            h == RatioParts(canvas.cropRatio)[2]
            W == BufferWidth
            H == BufferHeight
            off == Magnitude(ExactDifference(ExactProduct(c.width, Num(h)),
                                             ExactProduct(c.height, Num(w))))
        IN  IF W * h > H * w
            THEN /\ Equal(c.height, Num(H))
                 /\ Compare(Scaled(off, Precision - 1), Num(H * w)) <= 0
                 /\ (H * w) % h = 0 => IsZero(off)
            ELSE /\ Equal(c.width, Num(W))
                 /\ Compare(Scaled(off, Precision - 1), Num(W * h)) <= 0
                 /\ (W * h) % w = 0 => IsZero(off)

\* a region whose width is not the exact quotient H * 16 / 9
C25_Witness ==
    /\ canvas.stage = "drawn"
    /\ canvas.cropRatio = "16:9"
    /\ BufferWidth * 9 > BufferHeight * 16
    /\ ~Equal(ExactProduct(canvas.crop.width, Num(9)), Num(BufferHeight * 16))

CropIs(width, height, x, y) ==
    /\ Equal(canvas.crop.width, Num(width))
    /\ Equal(canvas.crop.height, Num(height))
    /\ Equal(canvas.crop.x, Num(x))
    /\ Equal(canvas.crop.y, Num(y))

\* C26: for a 1000x500 source with cropRatio 1:1 the crop region is width
\* 500, height 500, x 250, y 0 at rotation 0 and width 500, height 500, x 0,
\* y 250 at rotation 90, where the buffer is 500x1000.
C26_CropOfLandscapeSource ==
    (/\ canvas.stage = "drawn"
     /\ canvas.imgWidth = 1000 /\ canvas.imgHeight = 500
     /\ canvas.cropRatio = "1:1")
        => /\ canvas.rotation = 0 => CropIs(500, 500, 250, 0)
           /\ canvas.rotation = 90
                => (BufferWidth = 500 /\ BufferHeight = 1000 /\ CropIs(500, 500, 0, 250))

C26_Witness ==
    /\ canvas.stage = "drawn"
    /\ canvas.imgWidth = 1000 /\ canvas.imgHeight = 500
    /\ canvas.cropRatio = "1:1"
    /\ canvas.rotation = 90
    /\ CropIs(500, 500, 0, 250)

----------------------------------------------------------------------------
(* Rotation and the rotated buffer *)

\* entry b is entry a after one rotate
RotateStep(a, b) == b = [a EXCEPT !.rotation = (a.rotation + 90) % 360]

\* the history holds four rotates in a row from its entry i
FourRotates(i) == \A j \in i..(i + 3) : RotateStep(history[j], history[j + 1])

\* C27: the rotated buffer has the source's width and height swapped exactly
\* when rotation is 90 or 270 and unchanged when it is 0 or 180; four
\* rotates in a row return the rotation, and with it the whole entry, to
\* where they started, so the rotated buffer of every image is the same
\* after the fourth as before the first.  (The output's dimensions are
\* getCropDimensions of the buffer's dimensions and the entry's cropRatio.)
C27_RotatedBufferSwaps ==
    /\ rotation \in {0, 90, 180, 270}
    /\ \A size \in ImageSizes :
          LET bw == rotatedWidth(size[1], size[2], rotation)
              bh == rotatedHeight(size[1], size[2], rotation)
          IN  IF rotation \in {90, 270}
              THEN bw = size[2] /\ bh = size[1]
              ELSE bw = size[1] /\ bh = size[2]
    /\ \A i \in 1..(Len(history) - 4) :
          FourRotates(i)
            => /\ history[i + 4] = history[i]
               /\ \A size \in ImageSizes :
                     /\ rotatedWidth(size[1], size[2], history[i + 4].rotation)
                          = rotatedWidth(size[1], size[2], history[i].rotation)
                     /\ rotatedHeight(size[1], size[2], history[i + 4].rotation)
                          = rotatedHeight(size[1], size[2], history[i].rotation)

\* the fourth rotate in a row has just been made
C27_Witness ==
    /\ lastOp = "handleRotate"
    /\ Len(history) = 5
    /\ currentIndex = 4
    /\ FourRotates(1)
    /\ rotation = 0

----------------------------------------------------------------------------
(* Well-formed parameters *)

EditParameters(p) ==
    /\ p.brightness \in SliderMin..SliderMax
    /\ p.contrast \in SliderMin..SliderMax
    /\ p.rotation \in {0, 90, 180, 270}
    /\ p.cropRatio \in CropRatio

\* C28: in every reachable state the live parameters and every history entry
\* are well-formed: brightness and contrast are integers in [0,200], rotation
\* is one of 0, 90, 180, 270 and cropRatio is one of the six ratios.
C28_ParametersWellFormed ==
    /\ EditParameters(Live)
    /\ \A i \in 1..Len(history) : EditParameters(history[i])

\* a slider value was committed, the image turned, and the other slider is
\* being dragged
C28_Witness ==
    /\ Len(history) = 3
    /\ history[3] = EditorState(150, 100, 90, "original")
    /\ currentIndex = 2
    /\ contrast = 150

----------------------------------------------------------------------------
(* The storage slot *)

\* the text is one serialized snapshot: an object with the seven keys
OneSnapshot(text) ==
    /\ Parsable(text)
    /\ Len(text) = Len(SavedKeys)
    /\ \A i \in 1..Len(SavedKeys) : text[i][1] = SavedKeys[i]

\* C29: when the autosave timer fires, the slot is overwritten, whatever it
\* held and whichever image that belonged to, with one snapshot that holds
\* the signature of the session's image and the live parameters, history and
\* currentIndex as they are at that moment; the slot never holds more than
\* one snapshot.
C29_TimerOverwritesSlot ==
    [][ /\ lastOp' = "autosaveTimer"
            => /\ UNCHANGED <<editor, remixSourceImage>>
               /\ OneSnapshot(localStorage')
               /\ LET parsed == JSON_parse(localStorage')
                  IN  /\ parsed.imageSignature = getImageSignature(ImageData(remixSourceImage'))
                      /\ parsed.brightness = brightness'
                      /\ parsed.contrast = contrast'
                      /\ parsed.rotation = rotation'
                      /\ parsed.cropRatio = cropRatio'
                      /\ parsed.history = history'
                      /\ parsed.currentIndex = currentIndex'
        /\ (Len(localStorage') > 0 /\ Parsable(localStorage')) => OneSnapshot(localStorage') ]_vars

\* the timer overwrote an item that was not of this image with the state of
\* a session that had been edited
C29_Witness ==
    /\ lastOp = "autosaveTimer"
    /\ effect = "replaced"
    /\ Len(history) > 1
    /\ SavedMatches(image)
    /\ JSON_parse(localStorage).history = history

----------------------------------------------------------------------------
(* Rotate, crop, undo twice, redo *)

Rotated == EditorState(100, 100, 90, "original")

RotatedAndCropped == EditorState(100, 100, 90, "1:1")

\* the editor holds the given history, stands at index i of it and shows
\* that entry
Stands(h, i) == history = h /\ currentIndex = i /\ Live = At(h, i)

\* C30: from a fresh session rotate gives rotation 90 and a history of 2;
\* crop 1:1 then gives a history of 3; two undos then give the default
\* parameters and currentIndex 0; one redo then gives {100, 100, 90,
\* original} and currentIndex 1; the history keeps its 3 entries from the
\* crop on.
C30_RotateCropUndoUndoRedo ==
    [][ /\ (Stands(<<Default>>, 0) /\ lastOp' = "handleRotate")
            => (rotation' = 90 /\ Len(history') = 2 /\ Stands(<<Default, Rotated>>, 1)')
        /\ (Stands(<<Default, Rotated>>, 1) /\ lastOp' = "handleCropChange" /\ cropRatio' = "1:1")
            => (Len(history') = 3 /\ Stands(<<Default, Rotated, RotatedAndCropped>>, 2)')
        /\ (Stands(<<Default, Rotated, RotatedAndCropped>>, 2) /\ lastOp' = "handleUndo")
            => Stands(<<Default, Rotated, RotatedAndCropped>>, 1)'
        /\ (Stands(<<Default, Rotated, RotatedAndCropped>>, 1) /\ lastOp' = "handleUndo")
            => (Live' = Default /\ currentIndex' = 0 /\ Len(history') = 3
                /\ Stands(<<Default, Rotated, RotatedAndCropped>>, 0)')
        /\ (Stands(<<Default, Rotated, RotatedAndCropped>>, 0) /\ lastOp' = "handleRedo")
            => (Live' = Rotated /\ currentIndex' = 1 /\ Len(history') = 3
                /\ Stands(<<Default, Rotated, RotatedAndCropped>>, 1)') ]_vars

\* the end of the scenario: the redo after the two undos
C30_Witness ==
    /\ lastOp = "handleRedo"
    /\ effect = "moved"
    /\ undone /= <<>>
    /\ undone[1].currentIndex = 1
    /\ Stands(<<Default, Rotated, RotatedAndCropped>>, 1)

----------------------------------------------------------------------------
(* Selecting a crop ratio *)

\* C31: every value of the CropRatio enumeration can be selected: while the
\* editor is open and the history has room, each of the six values is the
\* live cropRatio after some operation of the session.
C31_EveryRatioSelectable ==
    (isEditingRemixSource /\ Len(history) < MaxTransformHistory)
        => \A r \in CropRatio : ENABLED (NextTransform /\ cropRatio' = r)

----------------------------------------------------------------------------
(* One output per editing session *)

\* C32: an editing session hands at most one output to the caller: onSave is
\* never called by an Image whose editor has already called onSave, also when
\* Apply was pressed again before the first Image had loaded.
C32_AtMostOneOutput ==
    ~(lastOp = "imgOnload" /\ effect = "saved")

----------------------------------------------------------------------------
(* The parameters of the output *)

\* C33: the output of Apply is composed from the live brightness, contrast,
\* rotation and cropRatio of the moment Apply was pressed, committed or not:
\* the callback holds those values, no later step of the editor changes what
\* it holds, and the filter, the angle and the crop of the canvas it draws
\* are computed from them.
C33_OutputFromParametersAtApply ==
    [][ /\ lastOp' = "generateFinalImage" => Closure' = Live
        /\ (canvas.stage = "loading" /\ lastOp' \notin DrawOps)
               => Closure' = Closure
        /\ (canvas.stage = "loading" /\ lastOp' = "imgOnload")
               => /\ canvas'.filter = <<Closure.brightness, Closure.contrast>>
                  /\ canvas'.angle = Closure.rotation
                  /\ canvas'.crop =
                       getCropDimensions(
                           rotatedWidth(canvas'.imgWidth, canvas'.imgHeight, Closure.rotation),
                           rotatedHeight(canvas'.imgWidth, canvas'.imgHeight, Closure.rotation),
                           Closure.cropRatio) ]_vars

\* Apply was pressed with a brightness that was never committed and, while
\* the image loads, the slider has been moved back and the image turned: the
\* callback still holds the values of the press
C33_Witness ==
    /\ canvas.stage = "loading"
    /\ imgs["open"] = 1
    /\ Closure.brightness = 150
    /\ At(history, currentIndex).brightness = 100
    /\ brightness = 100
    /\ Closure.rotation = 0
    /\ rotation = 90

----------------------------------------------------------------------------
(* The live transform and the history *)

\* C34: in every reachable state the live rotation and the live cropRatio are
\* those of history[currentIndex]; only brightness and contrast can differ
\* from the entry at currentIndex.
C34_TransformIsCommitted ==
    /\ HasEntry(history, currentIndex)
    /\ rotation = At(history, currentIndex).rotation
    /\ cropRatio = At(history, currentIndex).cropRatio

\* the image was turned and the brightness slider then moved without a
\* commit: the brightness is ahead of the entry, the rotation is the entry's
C34_Witness ==
    /\ isEditingRemixSource
    /\ currentIndex > 0
    /\ rotation = 90
    /\ At(history, currentIndex).rotation = 90
    /\ brightness = 150
    /\ At(history, currentIndex).brightness = 100

----------------------------------------------------------------------------
(* Adjacent entries of the history *)

\* C35: no two adjacent entries of the history are equal: history[i] differs
\* from history[i+1] in at least one of brightness, contrast, rotation and
\* cropRatio, for every i with 0 <= i < length(history) - 1.
C35_AdjacentEntriesDiffer ==
    \A i \in 0..(Len(history) - 2) :
        \E k \in {"brightness", "contrast", "rotation", "cropRatio"} :
            At(history, i)[k] /= At(history, i + 1)[k]

\* a commit of the state that is the current entry already, made at the end
\* of a history of three entries
C35_Witness ==
    /\ lastOp \in CommitOps
    /\ effect = "same"
    /\ Len(history) = 3
    /\ currentIndex = 2

----------------------------------------------------------------------------
(* Undo, then redo, and the live parameters *)

\* a redo made right after an undo that started at an index above 0
RedoneAfterUndo ==
    /\ lastOp = "handleRedo"
    /\ undone /= <<>>
    /\ ~undone[1].fresh
    /\ undone[1].currentIndex > 0

\* C36: from any reachable state with currentIndex > 0, undo followed
\* immediately by redo restores all four live parameters to the values they
\* had before the undo, also when brightness or contrast had been changed
\* without a commit.
C36_UndoRedoRestoresLive ==
    RedoneAfterUndo => live = undone[1].live

\* C36, amended: from any reachable state with currentIndex > 0, undo
\* followed immediately by redo sets all four live parameters to the entry
\* history[currentIndex] of before the undo: they are the values of before
\* the undo when brightness and contrast had been committed, and an
\* uncommitted brightness or contrast is replaced by the entry's.
C36_UndoRedoRestoresEntry ==
    RedoneAfterUndo =>
        LET before == undone[1]
            entry == At(before.history, before.currentIndex)
        IN  /\ Live = entry
            /\ before.live = <<entry.brightness, entry.contrast,
                               entry.rotation, entry.cropRatio>>
                  => live = before.live

\* undo, then redo, from a state whose brightness had not been committed
C36_Witness ==
    /\ RedoneAfterUndo
    /\ undone[1].live[1] = 150
    /\ At(undone[1].history, undone[1].currentIndex).brightness = 100
    /\ brightness = 100

----------------------------------------------------------------------------
(* The requests to the image service *)

\* one of the four buttons starts its request
StartsRequest ==
    handleAnalysis \/ handleEnhancePrompt \/ handleGeneration \/ handleRemix

StartOps == {"handleAnalysis", "handleEnhancePrompt", "handleGeneration", "handleRemix"}
ResolvedOps == {"requestResolved", "remixResolved"}
RejectedOps == {"requestRejected", "remixRejected"}

====
